---------------------------- MODULE Spec2Model ----------------------------
(***************************************************************************)
(* Model of src/pl_mysql_to_supa.py: the MySQL -> Postgres loader.         *)
(*                                                                         *)
(* Strings are sequences of one-character strings, so that strip, lower,   *)
(* re.sub, the `in` substring test and f-string formatting are computed    *)
(* character by character as the Python code computes them.  A printable   *)
(* ASCII character is written as itself, tab, line feed, form feed and     *)
(* carriage return by their escapes, and every other character as the atom *)
(* of its code point: "U+00E9", "U+1D7CE"; so is the grave accent,         *)
(* "U+0060".                                                               *)
(***************************************************************************)
EXTENDS Integers, Sequences, FiniteSets, TLC

VARIABLES
    \* ---- lines 179-180 of ensure_schema_and_table, run on their own ----
    mysql_col_names,   \* the raw COLUMN_NAME list
    norm_names,        \* [normalize_ident(x) for x in mysql_col_names]
    pg_col_names,      \* dedupe_idents(norm_names)
    pk_cols,           \* mysql_pk_cols: the key's COLUMN_NAMEs, in key order
    pk_norm,           \* the primary key under the target names
    pk_sql,            \* the PRIMARY KEY clause of the DDL
    names_pc,          \* "idle", or "raw" -> "normalized" -> "deduped" -> "keyed"
    \* ---- map_mysql_to_pg, run on its own ----
    DATA_TYPE,         \* c["DATA_TYPE"] of the column
    col_decl,          \* the declaration COLUMN_TYPE was written from
    COLUMN_TYPE,       \* c["COLUMN_TYPE"] of the column
    pg_type,           \* the descriptor map_mysql_to_pg returned
    COLUMN_DEFAULT,    \* c["COLUMN_DEFAULT"] of the column
    default_sql,       \* the DEFAULT clause of the column definition
    type_pc            \* "idle", or "unmapped" -> "mapped" -> "built"

\* ---- main(): one run of the loader ----
VARIABLES
    env,               \* the environment after load_dotenv()
    pc,                \* where main() stands
    my,                \* the MySQL connection: "none", "open", "closed"
    pg,                \* the Postgres connection: "none", "open", "closed"
    src_count,         \* rows of the source table `orders`
    meta_idx,          \* rows of metas the for loop has taken
    m,                 \* the row of metas being processed
    loc,               \* locals of the loop body and of load_data
    pg_schemas,        \* committed schemas of the target
    pg_tables,         \* committed tables of the target, by <<schema, table>>
    pg_pending,        \* rows inserted in the open transaction
    pg_pending_cells,  \* what they hold: <<key of the row, column, value>>
    pg_log,            \* statements and commits sent to the target, in order,
                       \* each with whether the server completed it
    history            \* the specs the loop has finished with, in order

names_vars == <<mysql_col_names, norm_names, pg_col_names, pk_cols,
               pk_norm, pk_sql, names_pc>>
type_vars == <<DATA_TYPE, col_decl, COLUMN_TYPE, pg_type, COLUMN_DEFAULT,
              default_sql, type_pc>>

main_vars == <<env, pc, my, pg, src_count, meta_idx, m, loc,
               pg_schemas, pg_tables, pg_pending, pg_pending_cells, pg_log,
               history>>

vars == <<names_vars, type_vars, main_vars>>

-----------------------------------------------------------------------------
(* Bounds of the model *)

\* longest raw name drawn character by character from Alphabet
MaxLen == 4
\* most columns in one list drawn from SampleNames
MaxCols == 3
\* widest display width, length or precision declared in a type string
MaxWidth == 11
\* largest scale declared in a decimal type string
MaxScale == 2
\* most rows in the source table
MaxRows == 3
\* largest BATCH_SIZE
MaxBatch == 2
\* most ACTIVE=1 rows in M_METADATA
MaxSpecs == 2

-----------------------------------------------------------------------------
(* Characters *)

LowerAZ == {"a","b","c","d","e","f","g","h","i","j","k","l","m",
            "n","o","p","q","r","s","t","u","v","w","x","y","z"}
Digits == {"0","1","2","3","4","5","6","7","8","9"}
\* the characters str.strip() removes, those for which str.isspace() holds:
\* the ASCII ones, then the others named by their code point
Whitespace ==
    {" ", "\t", "\n", "\r", "\f", "U+000B",
     "U+001C", "U+001D", "U+001E", "U+001F", "U+0085", "U+00A0",
     "U+1680", "U+2000", "U+2001", "U+2002", "U+2003", "U+2004", "U+2005",
     "U+2006", "U+2007", "U+2008", "U+2009", "U+200A", "U+2028", "U+2029",
     "U+202F", "U+205F", "U+3000"}
\* the class [a-z0-9_] of the regular expression on line 19
IdentChars == LowerAZ \cup Digits \cup {"_"}

\* the hexadecimal digits of n
RECURSIVE Hex(_)
Hex(n) ==
    LET HexDigits == <<"0", "1", "2", "3", "4", "5", "6", "7", "8", "9",
                       "A", "B", "C", "D", "E", "F">>
    IN  IF n < 16 THEN HexDigits[n + 1]
        ELSE Hex(n \div 16) \o HexDigits[(n % 16) + 1]

\* chr(n), as this module writes the character
Chr(n) ==
    LET Ascii ==
            <<" ", "!", "\"", "#", "$", "%", "&", "'", "(", ")", "*", "+", ",", "-",
               ".", "/", "0", "1", "2", "3", "4", "5", "6", "7", "8", "9", ":", ";",
               "<", "=", ">", "?", "@", "A", "B", "C", "D", "E", "F", "G", "H", "I",
               "J", "K", "L", "M", "N", "O", "P", "Q", "R", "S", "T", "U", "V", "W",
               "X", "Y", "Z", "[", "\\", "]", "^", "_", "U+0060", "a", "b", "c", "d",
               "e", "f", "g", "h", "i", "j", "k", "l", "m", "n", "o", "p", "q", "r",
               "s", "t", "u", "v", "w", "x", "y", "z", "{", "|", "}", "~">>
    IN
    CASE n = 9 -> "\t" [] n = 10 -> "\n" [] n = 12 -> "\f" [] n = 13 -> "\r"
      [] n \in 32..126 -> Ascii[n - 31]
      [] OTHER -> "U+" \o (IF n < 16 THEN "000" ELSE IF n < 256 THEN "00"
                           ELSE IF n < 4096 THEN "0" ELSE "") \o Hex(n)

\* the characters of the code points in a set of <<first, last>>
Chars(ranges) == UNION {{Chr(n) : n \in r[1]..r[2]} : r \in ranges}

\* the characters \d matches in a str pattern: those of category Nd
\* (Unicode 14.0.0), their code points given as <<first, last>>
DecimalDigits ==
    Chars(
    {<<48, 57>>, <<1632, 1641>>, <<1776, 1785>>, <<1984, 1993>>,
     <<2406, 2415>>, <<2534, 2543>>, <<2662, 2671>>, <<2790, 2799>>,
     <<2918, 2927>>, <<3046, 3055>>, <<3174, 3183>>, <<3302, 3311>>,
     <<3430, 3439>>, <<3558, 3567>>, <<3664, 3673>>, <<3792, 3801>>,
     <<3872, 3881>>, <<4160, 4169>>, <<4240, 4249>>, <<6112, 6121>>,
     <<6160, 6169>>, <<6470, 6479>>, <<6608, 6617>>, <<6784, 6793>>,
     <<6800, 6809>>, <<6992, 7001>>, <<7088, 7097>>, <<7232, 7241>>,
     <<7248, 7257>>, <<42528, 42537>>, <<43216, 43225>>, <<43264, 43273>>,
     <<43472, 43481>>, <<43504, 43513>>, <<43600, 43609>>, <<44016, 44025>>,
     <<65296, 65305>>, <<66720, 66729>>, <<68912, 68921>>, <<69734, 69743>>,
     <<69872, 69881>>, <<69942, 69951>>, <<70096, 70105>>, <<70384, 70393>>,
     <<70736, 70745>>, <<70864, 70873>>, <<71248, 71257>>, <<71360, 71369>>,
     <<71472, 71481>>, <<71904, 71913>>, <<72016, 72025>>, <<72784, 72793>>,
     <<73040, 73049>>, <<73120, 73129>>, <<92768, 92777>>, <<92864, 92873>>,
     <<93008, 93017>>, <<120782, 120831>>, <<123200, 123209>>,
     <<123632, 123641>>, <<125264, 125273>>, <<130032, 130041>>})

\* str.lower() on the characters it changes, each with the string it
\* becomes (Unicode 14.0.0): LowerRules gives the code points that become
\* one other code point, as <<first, last, step, distance to the lower
\* case>>; U+0130 is the one that becomes two characters
LowerTable ==
    LET LowerRules ==
            {<<65, 90, 1, 32>>, <<192, 214, 1, 32>>, <<216, 222, 1, 32>>,
             <<256, 302, 2, 1>>, <<306, 310, 2, 1>>, <<313, 327, 2, 1>>,
             <<330, 374, 2, 1>>, <<376, 376, 1, -121>>, <<377, 381, 2, 1>>,
             <<385, 385, 1, 210>>, <<386, 388, 2, 1>>, <<390, 390, 1, 206>>,
             <<391, 391, 1, 1>>, <<393, 394, 1, 205>>, <<395, 395, 1, 1>>,
             <<398, 398, 1, 79>>, <<399, 399, 1, 202>>, <<400, 400, 1, 203>>,
             <<401, 401, 1, 1>>, <<403, 403, 1, 205>>, <<404, 404, 1, 207>>,
             <<406, 406, 1, 211>>, <<407, 407, 1, 209>>, <<408, 408, 1, 1>>,
             <<412, 412, 1, 211>>, <<413, 413, 1, 213>>, <<415, 415, 1, 214>>,
             <<416, 420, 2, 1>>, <<422, 422, 1, 218>>, <<423, 423, 1, 1>>,
             <<425, 425, 1, 218>>, <<428, 428, 1, 1>>, <<430, 430, 1, 218>>,
             <<431, 431, 1, 1>>, <<433, 434, 1, 217>>, <<435, 437, 2, 1>>,
             <<439, 439, 1, 219>>, <<440, 440, 1, 1>>, <<444, 444, 1, 1>>,
             <<452, 452, 1, 2>>, <<453, 453, 1, 1>>, <<455, 455, 1, 2>>,
             <<456, 456, 1, 1>>, <<458, 458, 1, 2>>, <<459, 475, 2, 1>>,
             <<478, 494, 2, 1>>, <<497, 497, 1, 2>>, <<498, 500, 2, 1>>,
             <<502, 502, 1, -97>>, <<503, 503, 1, -56>>, <<504, 542, 2, 1>>,
             <<544, 544, 1, -130>>, <<546, 562, 2, 1>>, <<570, 570, 1, 10795>>,
             <<571, 571, 1, 1>>, <<573, 573, 1, -163>>, <<574, 574, 1, 10792>>,
             <<577, 577, 1, 1>>, <<579, 579, 1, -195>>, <<580, 580, 1, 69>>,
             <<581, 581, 1, 71>>, <<582, 590, 2, 1>>, <<880, 882, 2, 1>>,
             <<886, 886, 1, 1>>, <<895, 895, 1, 116>>, <<902, 902, 1, 38>>,
             <<904, 906, 1, 37>>, <<908, 908, 1, 64>>, <<910, 911, 1, 63>>,
             <<913, 929, 1, 32>>, <<931, 939, 1, 32>>, <<975, 975, 1, 8>>,
             <<984, 1006, 2, 1>>, <<1012, 1012, 1, -60>>, <<1015, 1015, 1, 1>>,
             <<1017, 1017, 1, -7>>, <<1018, 1018, 1, 1>>, <<1021, 1023, 1, -130>>,
             <<1024, 1039, 1, 80>>, <<1040, 1071, 1, 32>>, <<1120, 1152, 2, 1>>,
             <<1162, 1214, 2, 1>>, <<1216, 1216, 1, 15>>, <<1217, 1229, 2, 1>>,
             <<1232, 1326, 2, 1>>, <<1329, 1366, 1, 48>>, <<4256, 4293, 1, 7264>>,
             <<4295, 4295, 1, 7264>>, <<4301, 4301, 1, 7264>>,
             <<5024, 5103, 1, 38864>>, <<5104, 5109, 1, 8>>,
             <<7312, 7354, 1, -3008>>, <<7357, 7359, 1, -3008>>,
             <<7680, 7828, 2, 1>>, <<7838, 7838, 1, -7615>>, <<7840, 7934, 2, 1>>,
             <<7944, 7951, 1, -8>>, <<7960, 7965, 1, -8>>, <<7976, 7983, 1, -8>>,
             <<7992, 7999, 1, -8>>, <<8008, 8013, 1, -8>>, <<8025, 8031, 2, -8>>,
             <<8040, 8047, 1, -8>>, <<8072, 8079, 1, -8>>, <<8088, 8095, 1, -8>>,
             <<8104, 8111, 1, -8>>, <<8120, 8121, 1, -8>>, <<8122, 8123, 1, -74>>,
             <<8124, 8124, 1, -9>>, <<8136, 8139, 1, -86>>, <<8140, 8140, 1, -9>>,
             <<8152, 8153, 1, -8>>, <<8154, 8155, 1, -100>>, <<8168, 8169, 1, -8>>,
             <<8170, 8171, 1, -112>>, <<8172, 8172, 1, -7>>, <<8184, 8185, 1, -128>>,
             <<8186, 8187, 1, -126>>, <<8188, 8188, 1, -9>>,
             <<8486, 8486, 1, -7517>>, <<8490, 8490, 1, -8383>>,
             <<8491, 8491, 1, -8262>>, <<8498, 8498, 1, 28>>, <<8544, 8559, 1, 16>>,
             <<8579, 8579, 1, 1>>, <<9398, 9423, 1, 26>>, <<11264, 11311, 1, 48>>,
             <<11360, 11360, 1, 1>>, <<11362, 11362, 1, -10743>>,
             <<11363, 11363, 1, -3814>>, <<11364, 11364, 1, -10727>>,
             <<11367, 11371, 2, 1>>, <<11373, 11373, 1, -10780>>,
             <<11374, 11374, 1, -10749>>, <<11375, 11375, 1, -10783>>,
             <<11376, 11376, 1, -10782>>, <<11378, 11378, 1, 1>>,
             <<11381, 11381, 1, 1>>, <<11390, 11391, 1, -10815>>,
             <<11392, 11490, 2, 1>>, <<11499, 11501, 2, 1>>, <<11506, 11506, 1, 1>>,
             <<42560, 42604, 2, 1>>, <<42624, 42650, 2, 1>>, <<42786, 42798, 2, 1>>,
             <<42802, 42862, 2, 1>>, <<42873, 42875, 2, 1>>,
             <<42877, 42877, 1, -35332>>, <<42878, 42886, 2, 1>>,
             <<42891, 42891, 1, 1>>, <<42893, 42893, 1, -42280>>,
             <<42896, 42898, 2, 1>>, <<42902, 42920, 2, 1>>,
             <<42922, 42922, 1, -42308>>, <<42923, 42923, 1, -42319>>,
             <<42924, 42924, 1, -42315>>, <<42925, 42925, 1, -42305>>,
             <<42926, 42926, 1, -42308>>, <<42928, 42928, 1, -42258>>,
             <<42929, 42929, 1, -42282>>, <<42930, 42930, 1, -42261>>,
             <<42931, 42931, 1, 928>>, <<42932, 42946, 2, 1>>,
             <<42948, 42948, 1, -48>>, <<42949, 42949, 1, -42307>>,
             <<42950, 42950, 1, -35384>>, <<42951, 42953, 2, 1>>,
             <<42960, 42960, 1, 1>>, <<42966, 42968, 2, 1>>, <<42997, 42997, 1, 1>>,
             <<65313, 65338, 1, 32>>, <<66560, 66599, 1, 40>>,
             <<66736, 66771, 1, 40>>, <<66928, 66938, 1, 39>>,
             <<66940, 66954, 1, 39>>, <<66956, 66962, 1, 39>>,
             <<66964, 66965, 1, 39>>, <<68736, 68786, 1, 64>>,
             <<71840, 71871, 1, 32>>, <<93760, 93791, 1, 32>>,
             <<125184, 125217, 1, 34>>}
        pairs == UNION {{<<Chr(n), <<Chr(n + r[4])>>>> :
                            n \in {k \in r[1]..r[2] : (k - r[1]) % r[3] = 0}} :
                        r \in LowerRules}
    IN  ("U+0130" :> <<"i", "U+0307">>)
        @@ [c \in {p[1] : p \in pairs} |-> (CHOOSE p \in pairs : p[1] = c)[2]]

\* the characters with the property Cased (lower, upper or title case),
\* their code points given as <<first, last>>
Cased ==
    Chars(
    {<<65, 90>>, <<97, 122>>, <<170, 170>>, <<181, 181>>, <<186, 186>>,
     <<192, 214>>, <<216, 246>>, <<248, 442>>, <<444, 447>>, <<452, 659>>,
     <<661, 696>>, <<704, 705>>, <<736, 740>>, <<837, 837>>, <<880, 883>>,
     <<886, 887>>, <<890, 893>>, <<895, 895>>, <<902, 902>>, <<904, 906>>,
     <<908, 908>>, <<910, 929>>, <<931, 1013>>, <<1015, 1153>>,
     <<1162, 1327>>, <<1329, 1366>>, <<1376, 1416>>, <<4256, 4293>>,
     <<4295, 4295>>, <<4301, 4301>>, <<4304, 4346>>, <<4349, 4351>>,
     <<5024, 5109>>, <<5112, 5117>>, <<7296, 7304>>, <<7312, 7354>>,
     <<7357, 7359>>, <<7424, 7615>>, <<7680, 7957>>, <<7960, 7965>>,
     <<7968, 8005>>, <<8008, 8013>>, <<8016, 8023>>, <<8025, 8025>>,
     <<8027, 8027>>, <<8029, 8029>>, <<8031, 8061>>, <<8064, 8116>>,
     <<8118, 8124>>, <<8126, 8126>>, <<8130, 8132>>, <<8134, 8140>>,
     <<8144, 8147>>, <<8150, 8155>>, <<8160, 8172>>, <<8178, 8180>>,
     <<8182, 8188>>, <<8305, 8305>>, <<8319, 8319>>, <<8336, 8348>>,
     <<8450, 8450>>, <<8455, 8455>>, <<8458, 8467>>, <<8469, 8469>>,
     <<8473, 8477>>, <<8484, 8484>>, <<8486, 8486>>, <<8488, 8488>>,
     <<8490, 8493>>, <<8495, 8500>>, <<8505, 8505>>, <<8508, 8511>>,
     <<8517, 8521>>, <<8526, 8526>>, <<8544, 8575>>, <<8579, 8580>>,
     <<9398, 9449>>, <<11264, 11492>>, <<11499, 11502>>, <<11506, 11507>>,
     <<11520, 11557>>, <<11559, 11559>>, <<11565, 11565>>, <<42560, 42605>>,
     <<42624, 42653>>, <<42786, 42887>>, <<42891, 42894>>, <<42896, 42954>>,
     <<42960, 42961>>, <<42963, 42963>>, <<42965, 42969>>, <<42997, 42998>>,
     <<43000, 43002>>, <<43824, 43866>>, <<43868, 43880>>, <<43888, 43967>>,
     <<64256, 64262>>, <<64275, 64279>>, <<65313, 65338>>, <<65345, 65370>>,
     <<66560, 66639>>, <<66736, 66771>>, <<66776, 66811>>, <<66928, 66938>>,
     <<66940, 66954>>, <<66956, 66962>>, <<66964, 66965>>, <<66967, 66977>>,
     <<66979, 66993>>, <<66995, 67001>>, <<67003, 67004>>, <<67456, 67456>>,
     <<67459, 67461>>, <<67463, 67504>>, <<67506, 67514>>, <<68736, 68786>>,
     <<68800, 68850>>, <<71840, 71903>>, <<93760, 93823>>,
     <<119808, 119892>>, <<119894, 119964>>, <<119966, 119967>>,
     <<119970, 119970>>, <<119973, 119974>>, <<119977, 119980>>,
     <<119982, 119993>>, <<119995, 119995>>, <<119997, 120003>>,
     <<120005, 120069>>, <<120071, 120074>>, <<120077, 120084>>,
     <<120086, 120092>>, <<120094, 120121>>, <<120123, 120126>>,
     <<120128, 120132>>, <<120134, 120134>>, <<120138, 120144>>,
     <<120146, 120485>>, <<120488, 120512>>, <<120514, 120538>>,
     <<120540, 120570>>, <<120572, 120596>>, <<120598, 120628>>,
     <<120630, 120654>>, <<120656, 120686>>, <<120688, 120712>>,
     <<120714, 120744>>, <<120746, 120770>>, <<120772, 120779>>,
     <<122624, 122633>>, <<122635, 122654>>, <<125184, 125251>>,
     <<127280, 127305>>, <<127312, 127337>>, <<127344, 127369>>})

\* the characters with the property Case_Ignorable, their code points
\* given as <<first, last>>
CaseIgnorable ==
    Chars(
    {<<39, 39>>, <<46, 46>>, <<58, 58>>, <<94, 94>>, <<96, 96>>,
     <<168, 168>>, <<173, 173>>, <<175, 175>>, <<180, 180>>, <<183, 184>>,
     <<688, 879>>, <<884, 885>>, <<890, 890>>, <<900, 901>>, <<903, 903>>,
     <<1155, 1161>>, <<1369, 1369>>, <<1375, 1375>>, <<1425, 1469>>,
     <<1471, 1471>>, <<1473, 1474>>, <<1476, 1477>>, <<1479, 1479>>,
     <<1524, 1524>>, <<1536, 1541>>, <<1552, 1562>>, <<1564, 1564>>,
     <<1600, 1600>>, <<1611, 1631>>, <<1648, 1648>>, <<1750, 1757>>,
     <<1759, 1768>>, <<1770, 1773>>, <<1807, 1807>>, <<1809, 1809>>,
     <<1840, 1866>>, <<1958, 1968>>, <<2027, 2037>>, <<2042, 2042>>,
     <<2045, 2045>>, <<2070, 2093>>, <<2137, 2139>>, <<2184, 2184>>,
     <<2192, 2193>>, <<2200, 2207>>, <<2249, 2306>>, <<2362, 2362>>,
     <<2364, 2364>>, <<2369, 2376>>, <<2381, 2381>>, <<2385, 2391>>,
     <<2402, 2403>>, <<2417, 2417>>, <<2433, 2433>>, <<2492, 2492>>,
     <<2497, 2500>>, <<2509, 2509>>, <<2530, 2531>>, <<2558, 2558>>,
     <<2561, 2562>>, <<2620, 2620>>, <<2625, 2626>>, <<2631, 2632>>,
     <<2635, 2637>>, <<2641, 2641>>, <<2672, 2673>>, <<2677, 2677>>,
     <<2689, 2690>>, <<2748, 2748>>, <<2753, 2757>>, <<2759, 2760>>,
     <<2765, 2765>>, <<2786, 2787>>, <<2810, 2815>>, <<2817, 2817>>,
     <<2876, 2876>>, <<2879, 2879>>, <<2881, 2884>>, <<2893, 2893>>,
     <<2901, 2902>>, <<2914, 2915>>, <<2946, 2946>>, <<3008, 3008>>,
     <<3021, 3021>>, <<3072, 3072>>, <<3076, 3076>>, <<3132, 3132>>,
     <<3134, 3136>>, <<3142, 3144>>, <<3146, 3149>>, <<3157, 3158>>,
     <<3170, 3171>>, <<3201, 3201>>, <<3260, 3260>>, <<3263, 3263>>,
     <<3270, 3270>>, <<3276, 3277>>, <<3298, 3299>>, <<3328, 3329>>,
     <<3387, 3388>>, <<3393, 3396>>, <<3405, 3405>>, <<3426, 3427>>,
     <<3457, 3457>>, <<3530, 3530>>, <<3538, 3540>>, <<3542, 3542>>,
     <<3633, 3633>>, <<3636, 3642>>, <<3654, 3662>>, <<3761, 3761>>,
     <<3764, 3772>>, <<3782, 3782>>, <<3784, 3789>>, <<3864, 3865>>,
     <<3893, 3893>>, <<3895, 3895>>, <<3897, 3897>>, <<3953, 3966>>,
     <<3968, 3972>>, <<3974, 3975>>, <<3981, 3991>>, <<3993, 4028>>,
     <<4038, 4038>>, <<4141, 4144>>, <<4146, 4151>>, <<4153, 4154>>,
     <<4157, 4158>>, <<4184, 4185>>, <<4190, 4192>>, <<4209, 4212>>,
     <<4226, 4226>>, <<4229, 4230>>, <<4237, 4237>>, <<4253, 4253>>,
     <<4348, 4348>>, <<4957, 4959>>, <<5906, 5908>>, <<5938, 5939>>,
     <<5970, 5971>>, <<6002, 6003>>, <<6068, 6069>>, <<6071, 6077>>,
     <<6086, 6086>>, <<6089, 6099>>, <<6103, 6103>>, <<6109, 6109>>,
     <<6155, 6159>>, <<6211, 6211>>, <<6277, 6278>>, <<6313, 6313>>,
     <<6432, 6434>>, <<6439, 6440>>, <<6450, 6450>>, <<6457, 6459>>,
     <<6679, 6680>>, <<6683, 6683>>, <<6742, 6742>>, <<6744, 6750>>,
     <<6752, 6752>>, <<6754, 6754>>, <<6757, 6764>>, <<6771, 6780>>,
     <<6783, 6783>>, <<6823, 6823>>, <<6832, 6862>>, <<6912, 6915>>,
     <<6964, 6964>>, <<6966, 6970>>, <<6972, 6972>>, <<6978, 6978>>,
     <<7019, 7027>>, <<7040, 7041>>, <<7074, 7077>>, <<7080, 7081>>,
     <<7083, 7085>>, <<7142, 7142>>, <<7144, 7145>>, <<7149, 7149>>,
     <<7151, 7153>>, <<7212, 7219>>, <<7222, 7223>>, <<7288, 7293>>,
     <<7376, 7378>>, <<7380, 7392>>, <<7394, 7400>>, <<7405, 7405>>,
     <<7412, 7412>>, <<7416, 7417>>, <<7468, 7530>>, <<7544, 7544>>,
     <<7579, 7679>>, <<8125, 8125>>, <<8127, 8129>>, <<8141, 8143>>,
     <<8157, 8159>>, <<8173, 8175>>, <<8189, 8190>>, <<8203, 8207>>,
     <<8216, 8217>>, <<8228, 8228>>, <<8231, 8231>>, <<8234, 8238>>,
     <<8288, 8292>>, <<8294, 8303>>, <<8305, 8305>>, <<8319, 8319>>,
     <<8336, 8348>>, <<8400, 8432>>, <<11388, 11389>>, <<11503, 11505>>,
     <<11631, 11631>>, <<11647, 11647>>, <<11744, 11775>>, <<11823, 11823>>,
     <<12293, 12293>>, <<12330, 12333>>, <<12337, 12341>>, <<12347, 12347>>,
     <<12441, 12446>>, <<12540, 12542>>, <<40981, 40981>>, <<42232, 42237>>,
     <<42508, 42508>>, <<42607, 42610>>, <<42612, 42621>>, <<42623, 42623>>,
     <<42652, 42655>>, <<42736, 42737>>, <<42752, 42785>>, <<42864, 42864>>,
     <<42888, 42890>>, <<42994, 42996>>, <<43000, 43001>>, <<43010, 43010>>,
     <<43014, 43014>>, <<43019, 43019>>, <<43045, 43046>>, <<43052, 43052>>,
     <<43204, 43205>>, <<43232, 43249>>, <<43263, 43263>>, <<43302, 43309>>,
     <<43335, 43345>>, <<43392, 43394>>, <<43443, 43443>>, <<43446, 43449>>,
     <<43452, 43453>>, <<43471, 43471>>, <<43493, 43494>>, <<43561, 43566>>,
     <<43569, 43570>>, <<43573, 43574>>, <<43587, 43587>>, <<43596, 43596>>,
     <<43632, 43632>>, <<43644, 43644>>, <<43696, 43696>>, <<43698, 43700>>,
     <<43703, 43704>>, <<43710, 43711>>, <<43713, 43713>>, <<43741, 43741>>,
     <<43756, 43757>>, <<43763, 43764>>, <<43766, 43766>>, <<43867, 43871>>,
     <<43881, 43883>>, <<44005, 44005>>, <<44008, 44008>>, <<44013, 44013>>,
     <<64286, 64286>>, <<64434, 64450>>, <<65024, 65039>>, <<65043, 65043>>,
     <<65056, 65071>>, <<65106, 65106>>, <<65109, 65109>>, <<65279, 65279>>,
     <<65287, 65287>>, <<65294, 65294>>, <<65306, 65306>>, <<65342, 65342>>,
     <<65344, 65344>>, <<65392, 65392>>, <<65438, 65439>>, <<65507, 65507>>,
     <<65529, 65531>>, <<66045, 66045>>, <<66272, 66272>>, <<66422, 66426>>,
     <<67456, 67461>>, <<67463, 67504>>, <<67506, 67514>>, <<68097, 68099>>,
     <<68101, 68102>>, <<68108, 68111>>, <<68152, 68154>>, <<68159, 68159>>,
     <<68325, 68326>>, <<68900, 68903>>, <<69291, 69292>>, <<69446, 69456>>,
     <<69506, 69509>>, <<69633, 69633>>, <<69688, 69702>>, <<69744, 69744>>,
     <<69747, 69748>>, <<69759, 69761>>, <<69811, 69814>>, <<69817, 69818>>,
     <<69821, 69821>>, <<69826, 69826>>, <<69837, 69837>>, <<69888, 69890>>,
     <<69927, 69931>>, <<69933, 69940>>, <<70003, 70003>>, <<70016, 70017>>,
     <<70070, 70078>>, <<70089, 70092>>, <<70095, 70095>>, <<70191, 70193>>,
     <<70196, 70196>>, <<70198, 70199>>, <<70206, 70206>>, <<70367, 70367>>,
     <<70371, 70378>>, <<70400, 70401>>, <<70459, 70460>>, <<70464, 70464>>,
     <<70502, 70508>>, <<70512, 70516>>, <<70712, 70719>>, <<70722, 70724>>,
     <<70726, 70726>>, <<70750, 70750>>, <<70835, 70840>>, <<70842, 70842>>,
     <<70847, 70848>>, <<70850, 70851>>, <<71090, 71093>>, <<71100, 71101>>,
     <<71103, 71104>>, <<71132, 71133>>, <<71219, 71226>>, <<71229, 71229>>,
     <<71231, 71232>>, <<71339, 71339>>, <<71341, 71341>>, <<71344, 71349>>,
     <<71351, 71351>>, <<71453, 71455>>, <<71458, 71461>>, <<71463, 71467>>,
     <<71727, 71735>>, <<71737, 71738>>, <<71995, 71996>>, <<71998, 71998>>,
     <<72003, 72003>>, <<72148, 72151>>, <<72154, 72155>>, <<72160, 72160>>,
     <<72193, 72202>>, <<72243, 72248>>, <<72251, 72254>>, <<72263, 72263>>,
     <<72273, 72278>>, <<72281, 72283>>, <<72330, 72342>>, <<72344, 72345>>,
     <<72752, 72758>>, <<72760, 72765>>, <<72767, 72767>>, <<72850, 72871>>,
     <<72874, 72880>>, <<72882, 72883>>, <<72885, 72886>>, <<73009, 73014>>,
     <<73018, 73018>>, <<73020, 73021>>, <<73023, 73029>>, <<73031, 73031>>,
     <<73104, 73105>>, <<73109, 73109>>, <<73111, 73111>>, <<73459, 73460>>,
     <<78896, 78904>>, <<92912, 92916>>, <<92976, 92982>>, <<92992, 92995>>,
     <<94031, 94031>>, <<94095, 94111>>, <<94176, 94177>>, <<94179, 94180>>,
     <<110576, 110579>>, <<110581, 110587>>, <<110589, 110590>>,
     <<113821, 113822>>, <<113824, 113827>>, <<118528, 118573>>,
     <<118576, 118598>>, <<119143, 119145>>, <<119155, 119170>>,
     <<119173, 119179>>, <<119210, 119213>>, <<119362, 119364>>,
     <<121344, 121398>>, <<121403, 121452>>, <<121461, 121461>>,
     <<121476, 121476>>, <<121499, 121503>>, <<121505, 121519>>,
     <<122880, 122886>>, <<122888, 122904>>, <<122907, 122913>>,
     <<122915, 122916>>, <<122918, 122922>>, <<123184, 123197>>,
     <<123566, 123566>>, <<123628, 123631>>, <<125136, 125142>>,
     <<125252, 125259>>, <<127995, 127999>>, <<917505, 917505>>,
     <<917536, 917631>>, <<917760, 917999>>})

\* str.lower() on one character: the string it becomes
LowerChar(c) == IF c \in DOMAIN LowerTable THEN LowerTable[c] ELSE <<c>>

\* whether the capital sigma at position i of s is in the Final_Sigma
\* context: going back over the case-ignorable characters a cased one is
\* met, and going forward over the case-ignorable ones no cased one is met
FinalSigma(s, i) ==
    LET before == {j \in 1..(i - 1) : s[j] \notin CaseIgnorable}
        after == {j \in (i + 1)..Len(s) : s[j] \notin CaseIgnorable}
    IN  /\ before # {}
        /\ s[CHOOSE j \in before : \A k \in before : k <= j] \in Cased
        /\ \/ after = {}
           \/ s[CHOOSE j \in after : \A k \in after : j <= k] \notin Cased

\* str.lower() from position i of s on
RECURSIVE LowerFrom(_, _)
LowerFrom(s, i) ==
    IF i > Len(s) THEN <<>>
    ELSE (IF s[i] = "U+03A3"
          THEN <<IF FinalSigma(s, i) THEN "U+03C2" ELSE "U+03C3">>
          ELSE LowerChar(s[i]))
         \o LowerFrom(s, i + 1)

\* str.lower()
Lower(s) == LowerFrom(s, 1)

\* str.strip(chars): drop the leading and the trailing characters in cls
RECURSIVE LStrip(_, _)
LStrip(s, cls) ==
    IF s # <<>> /\ Head(s) \in cls THEN LStrip(Tail(s), cls) ELSE s

RECURSIVE RStrip(_, _)
RStrip(s, cls) ==
    IF s # <<>> /\ s[Len(s)] \in cls
    THEN RStrip(SubSeq(s, 1, Len(s) - 1), cls)
    ELSE s

Strip(s, cls) == RStrip(LStrip(s, cls), cls)

\* re.sub(r"[^a-z0-9_]+", "_", s): every maximal run of characters outside
\* [a-z0-9_] becomes one underscore
RECURSIVE SubNonIdentRuns(_, _)
SubNonIdentRuns(s, inRun) ==
    IF s = <<>> THEN <<>>
    ELSE IF Head(s) \notin IdentChars
         THEN (IF inRun THEN <<>> ELSE <<"_">>) \o SubNonIdentRuns(Tail(s), TRUE)
         ELSE <<Head(s)>> \o SubNonIdentRuns(Tail(s), FALSE)

\* re.sub(r"_+", "_", s): every maximal run of underscores becomes one
RECURSIVE SubUnderscoreRuns(_, _)
SubUnderscoreRuns(s, inRun) ==
    IF s = <<>> THEN <<>>
    ELSE IF Head(s) = "_"
         THEN (IF inRun THEN <<>> ELSE <<"_">>) \o SubUnderscoreRuns(Tail(s), TRUE)
         ELSE <<Head(s)>> \o SubUnderscoreRuns(Tail(s), FALSE)

\* str(n) for n >= 0, in decimal
DigitChar(d) ==
    CASE d = 0 -> "0" [] d = 1 -> "1" [] d = 2 -> "2" [] d = 3 -> "3"
      [] d = 4 -> "4" [] d = 5 -> "5" [] d = 6 -> "6" [] d = 7 -> "7"
      [] d = 8 -> "8" [] d = 9 -> "9"

RECURSIVE IntToStr(_)
IntToStr(n) ==
    IF n < 10 THEN <<DigitChar(n)>>
    ELSE IntToStr(n \div 10) \o <<DigitChar(n % 10)>>

\* int(s) for a string of decimal digits
DigitValue(c) == CHOOSE d \in 0..9 : DigitChar(d) = c

RECURSIVE StrToInt(_)
StrToInt(s) ==
    IF Len(s) = 1 THEN DigitValue(s[1])
    ELSE 10 * StrToInt(SubSeq(s, 1, Len(s) - 1)) + DigitValue(s[Len(s)])

-----------------------------------------------------------------------------
(* Utils *)

\* normalize_ident without the digit test of lines 23-24
normalize_ident_no_prefix(name) ==
    LET s1 == Lower(Strip(name, Whitespace))
        s2 == SubNonIdentRuns(s1, FALSE)
        s3 == Strip(SubUnderscoreRuns(s2, FALSE), {"_"})
    IN  IF s3 = <<>> THEN <<"c","o","l">> ELSE s3

normalize_ident(name) ==
    LET s1 == Lower(Strip(name, Whitespace))
        s2 == SubNonIdentRuns(s1, FALSE)
        s3 == Strip(SubUnderscoreRuns(s2, FALSE), {"_"})
        s4 == IF s3 = <<>> THEN <<"c","o","l">> ELSE s3
    IN  IF s4[1] \in Digits THEN <<"c","_">> \o s4 ELSE s4

\* dedupe_step numbering a repeated name by the occurrences before it
dedupe_step_prior_count(seen, x) ==
    IF x \notin DOMAIN seen
    THEN <<(x :> 1) @@ seen, x>>
    ELSE <<(x :> seen[x] + 1) @@ seen, x \o <<"_">> \o IntToStr(seen[x])>>

\* the loop body of dedupe_idents for one name x, with the dict `seen`
\* (a function on the names met so far); the pair <<seen', appended name>>
dedupe_step(seen, x) ==
    IF x \notin DOMAIN seen
    THEN <<(x :> 1) @@ seen, x>>
    ELSE <<(x :> seen[x] + 1) @@ seen, x \o <<"_">> \o IntToStr(seen[x] + 1)>>

RECURSIVE dedupe_loop(_, _, _)
dedupe_loop(idents, seen, out) ==
    IF idents = <<>> THEN out
    ELSE LET r == dedupe_step(seen, Head(idents))
         IN  dedupe_loop(Tail(idents), r[1], Append(out, r[2]))

dedupe_idents(idents) == dedupe_loop(idents, <<>>, <<>>)

-----------------------------------------------------------------------------
(* Type mapper *)

\* Python's None, for an argument that may be missing
None == <<"<None>">>

\* (x or ""): None and the empty string both give the empty string
OrEmpty(x) == IF x = None THEN <<>> ELSE x

\* the string literals of map_mysql_to_pg
S_int == <<"i","n","t">>
S_integer == <<"i","n","t","e","g","e","r">>
S_mediumint == <<"m","e","d","i","u","m","i","n","t">>
S_bigint == <<"b","i","g","i","n","t">>
S_smallint == <<"s","m","a","l","l","i","n","t">>
S_tinyint == <<"t","i","n","y","i","n","t">>
S_decimal == <<"d","e","c","i","m","a","l">>
S_numeric == <<"n","u","m","e","r","i","c">>
S_float == <<"f","l","o","a","t">>
S_double == <<"d","o","u","b","l","e">>
S_varchar == <<"v","a","r","c","h","a","r">>
S_char == <<"c","h","a","r">>
S_text == <<"t","e","x","t">>
S_mediumtext == <<"m","e","d","i","u","m","t","e","x","t">>
S_longtext == <<"l","o","n","g","t","e","x","t">>
S_datetime == <<"d","a","t","e","t","i","m","e">>
S_timestamp == <<"t","i","m","e","s","t","a","m","p">>
S_date == <<"d","a","t","e">>
S_time == <<"t","i","m","e">>
S_json == <<"j","s","o","n">>
S_blob == <<"b","l","o","b">>
S_mediumblob == <<"m","e","d","i","u","m","b","l","o","b">>
S_longblob == <<"l","o","n","g","b","l","o","b">>
S_binary == <<"b","i","n","a","r","y">>
S_varbinary == <<"v","a","r","b","i","n","a","r","y">>
S_tinyint_1 == <<"t","i","n","y","i","n","t","(","1",")">>
S_tinyint_1_open == <<"t","i","n","y","i","n","t","(","1">>
S_boolean == <<"b","o","o","l","e","a","n">>
S_real == <<"r","e","a","l">>
S_double_precision == <<"d","o","u","b","l","e"," ","p","r","e","c","i","s","i","o","n">>
S_timestamptz == <<"t","i","m","e","s","t","a","m","p","t","z">>
S_jsonb == <<"j","s","o","n","b">>
S_bytea == <<"b","y","t","e","a">>
S_false == <<"f","a","l","s","e">>
S_FALSE == <<"F","A","L","S","E">>
S_true == <<"t","r","u","e">>
S_TRUE == <<"T","R","U","E">>
S_DEFAULT == <<" ","D","E","F","A","U","L","T"," ">>

\* pat in s: pat occurs in s as a run of consecutive characters
Contains(s, pat) ==
    \E i \in 1..(Len(s) - Len(pat) + 1) : SubSeq(s, i, i + Len(pat) - 1) = pat

\* the end of the longest run of digits of s that starts at position i
\* (i - 1 when s[i] is no digit): the greedy match of \d+ from i
RECURSIVE DigitsEnd(_, _)
DigitsEnd(s, i) ==
    IF i <= Len(s) /\ s[i] \in DecimalDigits THEN DigitsEnd(s, i + 1)
    ELSE i - 1

\* MatchPairAt returning the two groups in the other order
MatchPairAt_swapped(s, i) ==
    IF ~(i <= Len(s) /\ s[i] = "(") THEN <<>>
    ELSE LET e1 == DigitsEnd(s, i + 1)
         IN  IF e1 < i + 1 \/ ~(e1 + 1 <= Len(s) /\ s[e1 + 1] = ",") THEN <<>>
             ELSE LET e2 == DigitsEnd(s, e1 + 2)
                  IN  IF e2 < e1 + 2 \/ ~(e2 + 1 <= Len(s) /\ s[e2 + 1] = ")")
                      THEN <<>>
                      ELSE <<SubSeq(s, e1 + 2, e2), SubSeq(s, i + 1, e1)>>

\* re.match of \((\d+),(\d+)\) at position i of s: <<group 1, group 2>>,
\* or <<>> when there is no match at i
MatchPairAt(s, i) ==
    IF ~(i <= Len(s) /\ s[i] = "(") THEN <<>>
    ELSE LET e1 == DigitsEnd(s, i + 1)
         IN  IF e1 < i + 1 \/ ~(e1 + 1 <= Len(s) /\ s[e1 + 1] = ",") THEN <<>>
             ELSE LET e2 == DigitsEnd(s, e1 + 2)
                  IN  IF e2 < e1 + 2 \/ ~(e2 + 1 <= Len(s) /\ s[e2 + 1] = ")")
                      THEN <<>>
                      ELSE <<SubSeq(s, i + 1, e1), SubSeq(s, e1 + 2, e2)>>

\* re.search(r"\((\d+),(\d+)\)", s): the leftmost match, <<>> for no match
RECURSIVE SearchPair(_, _)
SearchPair(s, i) ==
    IF i > Len(s) THEN <<>>
    ELSE IF MatchPairAt(s, i) # <<>> THEN MatchPairAt(s, i)
    ELSE SearchPair(s, i + 1)

\* re.match of \((\d+)\) at position i of s: <<group 1>>, or <<>>
MatchLenAt(s, i) ==
    IF ~(i <= Len(s) /\ s[i] = "(") THEN <<>>
    ELSE LET e1 == DigitsEnd(s, i + 1)
         IN  IF e1 < i + 1 \/ ~(e1 + 1 <= Len(s) /\ s[e1 + 1] = ")") THEN <<>>
             ELSE <<SubSeq(s, i + 1, e1)>>

\* re.search(r"\((\d+)\)", s): the leftmost match, <<>> for no match
RECURSIVE SearchLen(_, _)
SearchLen(s, i) ==
    IF i > Len(s) THEN <<>>
    ELSE IF MatchLenAt(s, i) # <<>> THEN MatchLenAt(s, i)
    ELSE SearchLen(s, i + 1)

\* map_mysql_to_pg testing for "tinyint(1" without the closing parenthesis
map_mysql_to_pg_open_paren(data_type, column_type) ==
    LET dt == Lower(OrEmpty(data_type))
        ct == Lower(OrEmpty(column_type))
    IN  IF dt = S_tinyint
        THEN (IF Contains(ct, S_tinyint_1_open) THEN S_boolean ELSE S_smallint)
        ELSE S_text

\* map_mysql_to_pg handing a type code it does not name through unchanged
map_mysql_to_pg_passthrough(data_type, column_type) ==
    LET dt == Lower(OrEmpty(data_type))
    IN  IF dt \in {S_int, S_integer, S_mediumint} THEN S_integer ELSE dt

map_mysql_to_pg(data_type, column_type) ==
    LET dt == Lower(OrEmpty(data_type))
        ct == Lower(OrEmpty(column_type))
    IN  CASE dt \in {S_int, S_integer, S_mediumint} -> S_integer
          [] dt = S_bigint -> S_bigint
          [] dt = S_smallint -> S_smallint
          [] dt = S_tinyint ->
                IF Contains(ct, S_tinyint_1) THEN S_boolean ELSE S_smallint
          [] dt \in {S_decimal, S_numeric} ->
                LET found == SearchPair(ct, 1)
                IN  IF found # <<>>
                    THEN S_numeric \o <<"(">> \o found[1] \o <<",">>
                                   \o found[2] \o <<")">>
                    ELSE S_numeric
          [] dt = S_float -> S_real
          [] dt = S_double -> S_double_precision
          [] dt \in {S_varchar, S_char} ->
                LET found == SearchLen(ct, 1)
                IN  IF found # <<>>
                    THEN S_varchar \o <<"(">> \o found[1] \o <<")">>
                    ELSE S_text
          [] dt \in {S_text, S_mediumtext, S_longtext} -> S_text
          [] dt = S_datetime -> S_timestamp
          [] dt = S_timestamp -> S_timestamptz
          [] dt = S_date -> S_date
          [] dt = S_time -> S_time
          [] dt = S_json -> S_jsonb
          [] dt \in {S_blob, S_mediumblob, S_longblob, S_binary, S_varbinary} ->
                S_bytea
          [] OTHER -> S_text

-----------------------------------------------------------------------------
(* Column names: the raw names, normalized, then deduplicated *)

\* the characters raw names are drawn from: a lower and an upper case
\* letter, a digit, the underscore, white space, punctuation, non-ASCII
Alphabet == {"a", "A", "2", "_", " ", "!", "U+00E9"}

RECURSIVE StringsUpTo(_)
StringsUpTo(n) ==
    IF n = 0 THEN {<<>>}
    ELSE LET shorter == StringsUpTo(n - 1)
         IN  shorter \cup {Append(s, c) : s \in shorter, c \in Alphabet}

\* column names that collide after normalization, or with a suffixed name,
\* and one of letters outside ASCII that str.lower() turns into ASCII ones
SampleNames ==
    { <<"N","a","m","e">>, <<"n","a","m","e"," ">>, <<"n","a","m","e","_","1">>,
      <<"n","a","m","e","_","2">>, <<"a">>, <<"a","_","2">>, <<"2","n","d">>,
      <<"!","!">>, <<"U+212A","U+0130","U+03A3">> }

RECURSIVE ListsUpTo(_, _)
ListsUpTo(S, n) ==
    IF n = 0 THEN {<<>>}
    ELSE LET shorter == ListsUpTo(S, n - 1)
         IN  shorter \cup {Append(l, x) : l \in shorter, x \in S}

NamesIdle ==
    /\ mysql_col_names = <<>>
    /\ norm_names = <<>>
    /\ pg_col_names = <<>>
    /\ pk_cols = <<>>
    /\ pk_norm = <<>>
    /\ pk_sql = <<>>
    /\ names_pc = "idle"

NamesInit ==
    /\ mysql_col_names \in {<<s>> : s \in StringsUpTo(MaxLen)}
                           \cup ListsUpTo(SampleNames, MaxCols)
    /\ norm_names = <<>>
    /\ pg_col_names = <<>>
    /\ pk_cols = <<>>
    /\ pk_norm = <<>>
    /\ pk_sql = <<>>
    /\ names_pc = "raw"

\* line 180, inner list comprehension
NormalizeNames ==
    /\ names_pc = "raw"
    /\ norm_names' = [i \in 1..Len(mysql_col_names) |->
                        normalize_ident(mysql_col_names[i])]
    /\ names_pc' = "normalized"
    /\ UNCHANGED <<mysql_col_names, pg_col_names, pk_cols, pk_norm, pk_sql,
                   type_vars, main_vars>>

\* line 180, dedupe_idents(...)
DedupeNames ==
    /\ names_pc = "normalized"
    /\ pg_col_names' = dedupe_idents(norm_names)
    /\ names_pc' = "deduped"
    /\ UNCHANGED <<mysql_col_names, norm_names, pk_cols, pk_norm, pk_sql,
                   type_vars, main_vars>>


-----------------------------------------------------------------------------
(* The source database, the control table and the environment *)

S_prd_ahp == <<"p","r","d","_","a","h","p">>
S_shop == <<"s","h","o","p">>
S_orders == <<"o","r","d","e","r","s">>
S_ghost == <<"g","h","o","s","t">>
S_Wh == <<"W","h">>
S_t == <<"t">>
S_T == <<"T">>
S_u == <<"u">>
S_Id == <<"I","d">>
S_Name == <<"N","a","m","e">>
S_legacy == <<"l","e","g","a","c","y">>
S_n_a == <<"n","/","a">>
S_varchar_5 == <<"v","a","r","c","h","a","r","(","5",")">>
S_append == <<"a","p","p","e","n","d">>
S_replace == <<"r","e","p","l","a","c","e">>
S_merge == <<"m","e","r","g","e">>
S_dsn == <<"d","s","n">>
S_Replace_padded == <<"U+00A0","R","e","p","l","a","c","e","\r">>
S_0 == <<"0">>
S_1 == <<"1">>

\* the keys main() requires (line 289), other than SUPABASE_PG_DSN
RequiredKeys == {"MYSQL_USER", "MYSQL_PASSWORD", "MYSQL_DATABASE"}

\* the environments drawn: every required key set and each setting varied,
\* or some required key unset with the other settings left at their defaults
Environments ==
    [ set : {RequiredKeys},
      SUPABASE_PG_DSN : {S_dsn},
      LOAD_MODE : {S_append, S_replace, S_Replace_padded, S_merge},
      BATCH_SIZE : {IntToStr(b) : b \in 1..MaxBatch},
      SUPABASE_SCHEMA : {<<"\f">> \o S_prd_ahp \o <<"U+0085">>},
      USE_TARGET_SCHEMA : {S_0, S_1 \o <<"\r">>} ]
    \cup
    [ set : SUBSET RequiredKeys,
      SUPABASE_PG_DSN : {<<>>, <<" ","\r","U+000B">>, S_dsn},
      LOAD_MODE : {S_append},
      BATCH_SIZE : {S_1},
      SUPABASE_SCHEMA : {S_prd_ahp},
      USE_TARGET_SCHEMA : {S_0} ]

\* the test of line 289 without SUPABASE_PG_DSN in its list
MissingRequired_credentials_only(e) == e.set # RequiredKeys

\* not os.getenv(k) for some k of line 289
MissingRequired(e) == e.set # RequiredKeys \/ e.SUPABASE_PG_DSN = <<>>

\* lines 294-301
load_mode == Lower(Strip(env.LOAD_MODE, Whitespace))
batch_size == StrToInt(env.BATCH_SIZE)
fixed_schema == Strip(env.SUPABASE_SCHEMA, Whitespace)
use_target_schema == Strip(env.USE_TARGET_SCHEMA, Whitespace) = S_1

\* information_schema.COLUMNS of a source table, by ORDINAL_POSITION
\* (lines 133-141): `orders` has three columns, two of them with the same
\* normalized name; `ghost` has none
SrcColumns(db, table) ==
    IF db = S_shop /\ table = S_orders
    THEN << [COLUMN_NAME |-> S_Id, COLUMN_TYPE |-> S_int, DATA_TYPE |-> S_int,
             IS_NULLABLE |-> "NO", COLUMN_DEFAULT |-> None],
            [COLUMN_NAME |-> S_Name, COLUMN_TYPE |-> S_varchar_5,
             DATA_TYPE |-> S_varchar, IS_NULLABLE |-> "YES",
             COLUMN_DEFAULT |-> S_n_a],
            [COLUMN_NAME |-> <<"n","a","m","e","!">>, COLUMN_TYPE |-> S_text,
             DATA_TYPE |-> S_text, IS_NULLABLE |-> "YES",
             COLUMN_DEFAULT |-> None] >>
    ELSE <<>>

\* the primary key of a source table (lines 149-161)
SrcPk(db, table) ==
    IF db = S_shop /\ table = S_orders THEN <<S_Id>> ELSE <<>>

\* the rows SELECT returns from a source table (line 263-265): row i of
\* `orders` is the integer i, its primary key value
SrcRows(db, table) ==
    IF db = S_shop /\ table = S_orders THEN [i \in 1..src_count |-> i] ELSE <<>>

\* a row of M_METADATA, SOURCE and TARGET already parsed (lines 317-318);
\* a TARGET without the key "database" has database = None
MetaRow(name, source_type, target_type, src_table, tgt_database, tgt_table) ==
    [INGESTION_NAME |-> name,
     SOURCE_TYPE |-> source_type, TARGET_TYPE |-> target_type,
     SOURCE |-> [database |-> S_shop, table |-> src_table],
     TARGET |-> [database |-> tgt_database, table |-> tgt_table]]

\* the rows of M_METADATA (lines 117-118), each under its own INGESTION_NAME;
\* any of them may have ACTIVE=1
MetaRows ==
    { MetaRow(<<"a">>, "view", "table", S_orders, None, S_t),
      MetaRow(<<"b">>, "table", "table", S_orders, None, S_t),
      MetaRow(<<"c">>, "table", "table", S_orders, S_Wh, S_T),
      MetaRow(<<"d">>, "table", "table", S_ghost, None, S_t),
      MetaRow(<<"e">>, "table", "table", S_orders, None, S_T),
      MetaRow(<<"f">>, "table", "table", S_orders, S_Wh, S_t),
      MetaRow(<<"s","1","0">>, "table", "table", S_orders, None, S_u),
      MetaRow(<<"s","9">>, "table", "table", S_orders, S_Wh, S_u),
      MetaRow(<<"z">>, "table", "view", S_orders, None, S_u) }

\* the characters of the names above in the order ORDER BY compares them
CharOrder ==
    <<"0","1","2","3","4","5","6","7","8","9",
      "a","b","c","d","e","f","g","h","i","j","k","l","m",
      "n","o","p","q","r","s","t","u","v","w","x","y","z">>

CharRank(c) == CHOOSE i \in 1..Len(CharOrder) : CharOrder[i] = c

\* ORDER BY INGESTION_NAME descending
RECURSIVE NameLess_desc(_, _)
NameLess_desc(a, b) ==
    IF a = <<>> THEN FALSE
    ELSE IF b = <<>> THEN TRUE
    ELSE IF a[1] = b[1] THEN NameLess_desc(Tail(a), Tail(b))
    ELSE CharRank(a[1]) > CharRank(b[1])

\* ORDER BY INGESTION_NAME (line 120): name a sorts before name b, strings
\* being compared character by character
RECURSIVE NameLess(_, _)
NameLess(a, b) ==
    IF b = <<>> THEN FALSE
    ELSE IF a = <<>> THEN TRUE
    ELSE IF a[1] = b[1] THEN NameLess(Tail(a), Tail(b))
    ELSE CharRank(a[1]) < CharRank(b[1])

\* row follows in metas the row the loop took last (lines 120, 311)
FollowsInMetas(row) ==
    meta_idx = 0 \/ NameLess(m.INGESTION_NAME, row.INGESTION_NAME)

NoMeta ==
    [INGESTION_NAME |-> <<>>, SOURCE_TYPE |-> "", TARGET_TYPE |-> "",
     SOURCE |-> [database |-> <<>>, table |-> <<>>],
     TARGET |-> [database |-> None, table |-> <<>>]]

NoLoc ==
    [tgt_schema |-> <<>>, schema_norm |-> <<>>, table_norm |-> <<>>,
     pg_cols |-> <<>>, mysql_cols |-> <<>>, select_cols |-> <<>>,
     insert_cols |-> <<>>, fetched |-> 0, total |-> 0]

-----------------------------------------------------------------------------
(* Supabase DDL + load *)

\* the target schema of line 323 that reads the source database instead of
\* the target database
tgt_schema_from_source(meta) ==
    IF use_target_schema THEN normalize_ident(meta.SOURCE.database)
    ELSE fixed_schema

\* line 323
tgt_schema_of(meta) ==
    IF use_target_schema
    THEN normalize_ident(IF meta.TARGET.database = None THEN fixed_schema
                         ELSE meta.TARGET.database)
    ELSE fixed_schema

\* lines 179-180
pg_col_names_of(mysql_cols) ==
    dedupe_idents([i \in 1..Len(mysql_cols) |->
                      normalize_ident(mysql_cols[i].COLUMN_NAME)])

\* lines 183-186 listing the key columns in the order of the column list
pk_norm_of_column_order(mysql_cols, mysql_pk_cols) ==
    LET pgn == pg_col_names_of(mysql_cols)
        positions == SelectSeq([i \in 1..Len(mysql_cols) |-> i],
                         LAMBDA i : \E k \in 1..Len(mysql_pk_cols) :
                                       mysql_pk_cols[k] = mysql_cols[i].COLUMN_NAME)
    IN  [k \in 1..Len(positions) |-> pgn[positions[k]]]

\* lines 183-186: dict(zip(...)) keeps the last value of a repeated key
pk_norm_of(mysql_cols, mysql_pk_cols) ==
    LET names == [i \in 1..Len(mysql_cols) |-> mysql_cols[i].COLUMN_NAME]
        pgn == pg_col_names_of(mysql_cols)
        last(x) == CHOOSE i \in 1..Len(names) :
                      /\ names[i] = x
                      /\ \A j \in (i + 1)..Len(names) : names[j] # x
        kept == SelectSeq(mysql_pk_cols,
                          LAMBDA x : \E i \in 1..Len(names) : names[i] = x)
    IN  [k \in 1..Len(kept) |-> pgn[last(kept[k])]]

\* sql.Identifier: double quotes around the name, each quote in it doubled
RECURSIVE DoubleDQuotes(_)
DoubleDQuotes(s) ==
    IF s = <<>> THEN <<>>
    ELSE (IF Head(s) = "\"" THEN <<"\"", "\"">> ELSE <<Head(s)>>)
         \o DoubleDQuotes(Tail(s))

SqlIdentifier(s) == <<"\"">> \o DoubleDQuotes(s) \o <<"\"">>

\* sql.SQL(", ").join(sql.Identifier(x) for x in names)
RECURSIVE JoinIdentifiers(_)
JoinIdentifiers(names) ==
    IF names = <<>> THEN <<>>
    ELSE IF Len(names) = 1 THEN SqlIdentifier(names[1])
    ELSE SqlIdentifier(names[1]) \o <<",", " ">> \o JoinIdentifiers(Tail(names))

S_PRIMARY_KEY == <<",", " ", "P","R","I","M","A","R","Y", " ", "K","E","Y", " ", "(">>

\* lines 218-222: the PRIMARY KEY clause, empty when pk_norm is empty
pk_sql_of(pk) ==
    IF pk # <<>> THEN S_PRIMARY_KEY \o JoinIdentifiers(pk) \o <<")">> ELSE <<>>

\* the primary keys a table with these column names can have: its columns,
\* none of them twice, in any order
PrimaryKeys(names) ==
    LET n == Len(names)
        picks == UNION {[1..k -> 1..n] : k \in 0..n}
    IN  { [k \in 1..Len(p) |-> names[p[k]]] :
            p \in {q \in picks : \A i, j \in 1..Len(q) : i # j => q[i] # q[j]} }

\* lines 182-186 and 218-222 for a table whose column names are pairwise
\* different, as the catalog holds them, and one of its primary keys
NormalizePk ==
    /\ names_pc = "deduped"
    /\ \A i, j \in 1..Len(mysql_col_names) :
          i # j => mysql_col_names[i] # mysql_col_names[j]
    /\ \E pk \in PrimaryKeys(mysql_col_names) :
          /\ pk_cols' = pk
          /\ pk_norm' = pk_norm_of([i \in 1..Len(mysql_col_names) |->
                                      [COLUMN_NAME |-> mysql_col_names[i]]], pk)
    /\ pk_sql' = pk_sql_of(pk_norm')
    /\ names_pc' = "keyed"
    /\ UNCHANGED <<mysql_col_names, norm_names, pg_col_names, type_vars, main_vars>>

NamesNext == NormalizeNames \/ DedupeNames \/ NormalizePk

\* str.startswith(prefix)
StartsWith(s, prefix) ==
    Len(s) >= Len(prefix) /\ SubSeq(s, 1, Len(prefix)) = prefix

\* re.fullmatch(r"[-+]?\d+(\.\d+)?", s)
FullMatchNumber(s) ==
    LET start == IF s # <<>> /\ s[1] \in {"-", "+"} THEN 2 ELSE 1
        e1 == DigitsEnd(s, start)
    IN  /\ e1 >= start
        /\ \/ e1 = Len(s)
           \/ /\ e1 + 1 <= Len(s) /\ s[e1 + 1] = "."
              /\ DigitsEnd(s, e1 + 2) >= e1 + 2
              /\ DigitsEnd(s, e1 + 2) = Len(s)

\* sql.Literal of a string: single quotes around it, each quote in it doubled
RECURSIVE DoubleQuotes(_)
DoubleQuotes(s) ==
    IF s = <<>> THEN <<>>
    ELSE (IF Head(s) = "'" THEN <<"'", "'">> ELSE <<Head(s)>>)
         \o DoubleQuotes(Tail(s))

SqlLiteral(s) == <<"'">> \o DoubleQuotes(s) \o <<"'">>

\* lines 193-205: the DEFAULT clause of a column, empty when there is none
default_sql_of(type, default) ==
    IF default = None THEN <<>>
    ELSE IF type = S_boolean
    THEN (IF default \in {S_0, S_false, S_FALSE} THEN S_DEFAULT \o S_false
          ELSE IF default \in {S_1, S_true, S_TRUE} THEN S_DEFAULT \o S_true
          ELSE <<>>)
    ELSE IF \E prefix \in {S_integer, S_bigint, S_smallint, S_numeric, S_real,
                           S_double} : StartsWith(type, prefix)
    THEN (IF FullMatchNumber(default) THEN S_DEFAULT \o default ELSE <<>>)
    ELSE IF type = S_text \/ StartsWith(type, S_varchar)
    THEN S_DEFAULT \o SqlLiteral(default)
    ELSE <<>>

\* lines 188-216: the column definitions of the DDL
col_defs_of(mysql_cols) ==
    LET pgn == pg_col_names_of(mysql_cols)
        type(i) == map_mysql_to_pg(mysql_cols[i].DATA_TYPE,
                                   mysql_cols[i].COLUMN_TYPE)
    IN  [i \in 1..Len(mysql_cols) |->
            [name |-> pgn[i],
             type |-> type(i),
             default_sql |-> default_sql_of(type(i),
                                            mysql_cols[i].COLUMN_DEFAULT),
             not_null |-> mysql_cols[i].IS_NULLABLE # "YES"]]

\* a list with the same element at two positions
HasDuplicates(l) == \E i, j \in 1..Len(l) : i # j /\ l[i] = l[j]

\* CREATE TABLE that replaces the table it finds
create_table_or_replace(tables, key, col_defs, pk) ==
    (key :> [cols |-> col_defs, pk |-> pk, rows |-> <<>>, cells |-> {}])
    @@ tables

\* CREATE TABLE IF NOT EXISTS (line 226): a table that exists is left alone
create_table_if_not_exists(tables, key, col_defs, pk) ==
    IF key \in DOMAIN tables THEN tables
    ELSE (key :> [cols |-> col_defs, pk |-> pk, rows |-> <<>>, cells |-> {}])
         @@ tables

\* maybe_truncate that never truncates
truncated_never(tables, key, mode) == tables

\* maybe_truncate that truncates in every mode
truncated_always(tables, key, mode) ==
    [tables EXCEPT ![key] = [@ EXCEPT !.rows = <<>>, !.cells = {}]]

\* maybe_truncate (lines 241-249): the table after it
truncated(tables, key, mode) ==
    IF mode = S_replace
    THEN [tables EXCEPT ![key] = [@ EXCEPT !.rows = <<>>, !.cells = {}]]
    ELSE tables

\* a cursor whose tuples hold the selected columns in reverse order
SelectedRow_reversed(select_cols, k) ==
    [i \in 1..Len(select_cols) |->
        [row |-> k, column |-> select_cols[Len(select_cols) + 1 - i]]]

\* the tuple the cursor returns for the source row of key k after
\* SELECT `c1`, `c2`, ... (lines 263-265, 276): its i-th element is what the
\* row holds in the i-th column of the select list
SelectedRow(select_cols, k) ==
    [i \in 1..Len(select_cols) |-> [row |-> k, column |-> select_cols[i]]]

\* what INSERT INTO t (c1, c2, ...) VALUES %s stores for the tuple of the
\* row of key k (lines 267-271, 279): the i-th value of the tuple under the
\* i-th column named by the statement
InsertedRow(insert_cols, k, tuple) ==
    {<<k, insert_cols[i], tuple[i]>> : i \in 1..Len(insert_cols)}

\* cursor.fetchmany that returns one row more than asked for
fetchmany_one_more(rows, fetched, size) ==
    SubSeq(rows, fetched + 1,
           IF fetched + size + 1 < Len(rows) THEN fetched + size + 1 ELSE Len(rows))

\* cursor.fetchmany(size) on a result of which `fetched` rows were read
fetchmany(rows, fetched, size) ==
    SubSeq(rows, fetched + 1,
           IF fetched + size < Len(rows) THEN fetched + size ELSE Len(rows))

\* whether the target accepts INSERT INTO key (pg_cols) of these rows: every
\* named column exists, none is named twice, and no row repeats a primary
\* key value of the table or of the open transaction
InsertAccepted(key, pg_cols, rows) ==
    /\ key \in DOMAIN pg_tables
    /\ ~HasDuplicates(pg_cols)
    /\ \A i \in 1..Len(pg_cols) :
          \E j \in 1..Len(pg_tables[key].cols) :
              pg_tables[key].cols[j].name = pg_cols[i]
    /\ pg_tables[key].pk # <<>> =>
          \A i \in 1..Len(rows) :
              /\ \A j \in 1..Len(pg_tables[key].rows) :
                    pg_tables[key].rows[j] # rows[i]
              /\ \A j \in 1..Len(pg_pending) : pg_pending[j] # rows[i]

Key == <<loc.schema_norm, loc.table_norm>>

\* a statement or commit sent for the current row of M_METADATA, which the
\* server completed
Event(op) == [op |-> op, spec |-> meta_idx, key |-> Key, ok |-> TRUE]

\* a statement or commit sent for the current row of M_METADATA, which raised
Failed(op) == [Event(op) EXCEPT !.ok = FALSE]

-----------------------------------------------------------------------------
(* main() *)

names_type_idle == UNCHANGED <<names_vars, type_vars>>

\* the target before the run: empty, or holding two tables of two rows
\* each, prd_ahp.t under the definition the loader gives it (columns id,
\* name, name_2) and prd_ahp.u under another definition; their rows have
\* negative keys and hold values that are not in the source
InitialTargets ==
    LET OldCells(names, keys) ==
            {<<k, c, [row |-> k, column |-> c]>> : k \in keys, c \in names}
    IN
    { [schemas |-> {}, tables |-> <<>>],
      [schemas |-> {S_prd_ahp},
       tables |-> (<<S_prd_ahp, S_t>> :>
                    [cols |-> col_defs_of(SrcColumns(S_shop, S_orders)),
                     pk |-> pk_norm_of(SrcColumns(S_shop, S_orders),
                                       SrcPk(S_shop, S_orders)),
                     rows |-> <<-1, -2>>,
                     cells |-> OldCells({<<"i","d">>, <<"n","a","m","e">>,
                                         <<"n","a","m","e","_","2">>},
                                        {-1, -2})])
                  @@
                  (<<S_prd_ahp, S_u>> :>
                    [cols |-> <<[name |-> S_legacy, type |-> S_text,
                                 default_sql |-> <<>>, not_null |-> FALSE]>>,
                     pk |-> <<>>,
                     rows |-> <<-3, -4>>,
                     cells |-> OldCells({S_legacy}, {-3, -4})])] }

MainInit ==
    /\ env \in Environments
    /\ pc = "start"
    /\ my = "none"
    /\ pg = "none"
    /\ src_count \in 0..MaxRows
    /\ meta_idx = 0
    /\ m = NoMeta
    /\ loc = NoLoc
    /\ \E t \in InitialTargets : pg_schemas = t.schemas /\ pg_tables = t.tables
    /\ pg_pending = <<>>
    /\ pg_pending_cells = {}
    /\ pg_log = <<>>
    /\ history = <<>>

MainIdle ==
    /\ env = [set |-> {}, SUPABASE_PG_DSN |-> <<>>, LOAD_MODE |-> S_append,
              BATCH_SIZE |-> S_1, SUPABASE_SCHEMA |-> S_prd_ahp,
              USE_TARGET_SCHEMA |-> S_0]
    /\ pc = "idle"
    /\ my = "none"
    /\ pg = "none"
    /\ src_count = 0
    /\ meta_idx = 0
    /\ m = NoMeta
    /\ loc = NoLoc
    /\ pg_schemas = {}
    /\ pg_tables = <<>>
    /\ pg_pending = <<>>
    /\ pg_pending_cells = {}
    /\ pg_log = <<>>
    /\ history = <<>>

\* lines 289-291: a missing required value ends the run with SystemExit
CheckEnv ==
    /\ pc = "start"
    /\ pc' = IF MissingRequired(env) THEN "exit" ELSE "mysql_conn"
    /\ UNCHANGED <<env, my, pg, src_count, meta_idx, m, loc,
                   pg_schemas, pg_tables, pg_pending, pg_pending_cells,
                   pg_log, history>>
    /\ names_type_idle

\* line 303: the connection opens, or connect() raises
MysqlConn ==
    /\ pc = "mysql_conn"
    /\ \/ my' = "open" /\ pc' = "supa_pg_conn"
       \/ my' = my /\ pc' = "raised"
    /\ UNCHANGED <<env, pg, src_count, meta_idx, m, loc,
                   pg_schemas, pg_tables, pg_pending, pg_pending_cells,
                   pg_log, history>>
    /\ names_type_idle

\* line 304, lines 101-105: a blank DSN is a SystemExit, connect() may raise;
\* both happen before the try of line 305
SupaPgConn ==
    /\ pc = "supa_pg_conn"
    /\ IF Strip(env.SUPABASE_PG_DSN, Whitespace) = <<>>
       THEN pg' = pg /\ pc' = "exit"
       ELSE \/ pg' = "open" /\ pc' = "load_all_metadata"
            \/ pg' = pg /\ pc' = "raised"
    /\ UNCHANGED <<env, my, src_count, meta_idx, m, loc,
                   pg_schemas, pg_tables, pg_pending, pg_pending_cells,
                   pg_log, history>>
    /\ names_type_idle

\* lines 306-309: the ACTIVE=1 rows are read in the order of their
\* INGESTION_NAME; with none of them main returns.  M_METADATA is not written
\* during the run, so which rows have ACTIVE=1 is drawn when the loop reaches
\* them: at most MaxSpecs of them
LoadAllMetadata ==
    /\ pc = "load_all_metadata"
    /\ pc' \in {"finally_return", "for"}
    /\ UNCHANGED <<env, my, pg, src_count, meta_idx, m, loc,
                   pg_schemas, pg_tables, pg_pending, pg_pending_cells,
                   pg_log, history>>
    /\ names_type_idle

\* line 311 at the end of metas: the loop ends and main falls into finally
ForEnd ==
    /\ pc = "for"
    /\ meta_idx >= 1
    /\ pc' = "finally_return"
    /\ UNCHANGED <<env, my, pg, src_count, meta_idx, m, loc,
                   pg_schemas, pg_tables, pg_pending, pg_pending_cells,
                   pg_log, history>>
    /\ names_type_idle

\* lines 311-315 leaving the loop at a row that is not table -> table
ForSkipBreaks ==
    /\ pc = "for"
    /\ meta_idx < MaxSpecs
    /\ \E row \in MetaRows :
          /\ FollowsInMetas(row)
          /\ row.SOURCE_TYPE # "table" \/ row.TARGET_TYPE # "table"
          /\ m' = row
    /\ meta_idx' = meta_idx + 1
    /\ history' = Append(history, [spec |-> meta_idx + 1, name |-> m'.INGESTION_NAME,
                                   outcome |-> "skipped", table |-> <<>>,
                                   key |-> <<>>, total |-> 0])
    /\ pc' = "finally_return"
    /\ UNCHANGED <<env, my, pg, src_count, loc,
                   pg_schemas, pg_tables, pg_pending, pg_pending_cells,
                   pg_log>>
    /\ names_type_idle

\* lines 311-315: the next row is not table -> table and is skipped
ForSkip ==
    /\ pc = "for"
    /\ meta_idx < MaxSpecs
    /\ \E row \in MetaRows :
          /\ FollowsInMetas(row)
          /\ row.SOURCE_TYPE # "table" \/ row.TARGET_TYPE # "table"
          /\ m' = row
    /\ meta_idx' = meta_idx + 1
    /\ history' = Append(history, [spec |-> meta_idx + 1, name |-> m'.INGESTION_NAME,
                                   outcome |-> "skipped", table |-> <<>>,
                                   key |-> <<>>, total |-> 0])
    /\ UNCHANGED <<env, pc, my, pg, src_count, loc,
                   pg_schemas, pg_tables, pg_pending, pg_pending_cells,
                   pg_log>>
    /\ names_type_idle

\* lines 311-328: the next row is table -> table; its source and target are
\* read and the target schema is chosen
ForTake ==
    /\ pc = "for"
    /\ meta_idx < MaxSpecs
    /\ \E row \in MetaRows :
          /\ FollowsInMetas(row)
          /\ row.SOURCE_TYPE = "table" /\ row.TARGET_TYPE = "table"
          /\ m' = row
    /\ meta_idx' = meta_idx + 1
    /\ loc' = [NoLoc EXCEPT !.tgt_schema = tgt_schema_of(m')]
    /\ pc' = "mysql_columns"
    /\ UNCHANGED <<env, my, pg, src_count,
                   pg_schemas, pg_tables, pg_pending, pg_pending_cells,
                   pg_log, history>>
    /\ names_type_idle

\* lines 330-331 with a mysql_columns that returns an empty list
IntrospectNoCheck ==
    /\ pc = "mysql_columns"
    /\ pc' = "ensure_schema_and_table"
    /\ UNCHANGED <<env, my, pg, src_count, meta_idx, m, loc,
                   pg_schemas, pg_tables, pg_pending, pg_pending_cells,
                   pg_log, history>>
    /\ names_type_idle

\* lines 330-331: mysql_columns raises when the catalog has no columns
Introspect ==
    /\ pc = "mysql_columns"
    /\ pc' = IF SrcColumns(m.SOURCE.database, m.SOURCE.table) = <<>>
             THEN "finally_raise" ELSE "ensure_schema_and_table"
    /\ UNCHANGED <<env, my, pg, src_count, meta_idx, m, loc,
                   pg_schemas, pg_tables, pg_pending, pg_pending_cells,
                   pg_log, history>>
    /\ names_type_idle

\* lines 333-335, 176-238: the names are normalized, the DDL is executed and
\* committed; the DDL is refused when the table is to be created with a
\* repeated column name
EnsureSchemaAndTable ==
    /\ pc = "ensure_schema_and_table"
    /\ LET cols == SrcColumns(m.SOURCE.database, m.SOURCE.table)
           pk == SrcPk(m.SOURCE.database, m.SOURCE.table)
           schema_norm == normalize_ident(loc.tgt_schema)
           table_norm == normalize_ident(m.TARGET.table)
           key == <<schema_norm, table_norm>>
           pgn == pg_col_names_of(cols)
       IN  IF key \notin DOMAIN pg_tables /\ HasDuplicates(pgn)
           THEN /\ pc' = "finally_raise"
                /\ pg_log' = Append(pg_log,
                                    [op |-> "ddl", spec |-> meta_idx,
                                     key |-> key, ok |-> FALSE])
                /\ UNCHANGED <<loc, pg_schemas, pg_tables>>
           ELSE /\ loc' = [loc EXCEPT !.schema_norm = schema_norm,
                                       !.table_norm = table_norm,
                                       !.pg_cols = pgn,
                                       !.mysql_cols = [i \in 1..Len(cols) |->
                                                         cols[i].COLUMN_NAME]]
                /\ pg_schemas' = pg_schemas \cup {schema_norm}
                /\ pg_tables' = create_table_if_not_exists(
                                   pg_tables, key, col_defs_of(cols),
                                   pk_norm_of(cols, pk))
                /\ pg_log' = pg_log \o
                               <<[op |-> "ddl", spec |-> meta_idx,
                                  key |-> key, ok |-> TRUE],
                                 [op |-> "commit", spec |-> meta_idx,
                                  key |-> key, ok |-> TRUE]>>
                /\ pc' = "maybe_truncate"
    /\ UNCHANGED <<env, my, pg, src_count, meta_idx, m,
                   pg_pending, pg_pending_cells, history>>
    /\ names_type_idle

\* line 235 or line 236 raising for a reason of the connection: the DDL was
\* sent and failed, or it was executed and its commit failed; nothing is
\* committed and ensure_schema_and_table returns nothing
EnsureFails ==
    /\ pc = "ensure_schema_and_table"
    /\ LET key == <<normalize_ident(loc.tgt_schema),
                    normalize_ident(m.TARGET.table)>>
           ddl == [op |-> "ddl", spec |-> meta_idx, key |-> key, ok |-> TRUE]
       IN  \/ pg_log' = Append(pg_log, [ddl EXCEPT !.ok = FALSE])
           \/ pg_log' = pg_log \o <<ddl, [ddl EXCEPT !.op = "commit",
                                                     !.ok = FALSE]>>
    /\ pc' = "finally_raise"
    /\ UNCHANGED <<env, my, pg, src_count, meta_idx, m, loc,
                   pg_schemas, pg_tables, pg_pending, pg_pending_cells,
                   history>>
    /\ names_type_idle

\* line 337, lines 241-249: in replace mode TRUNCATE is executed and
\* committed; in any other mode nothing is sent
MaybeTruncate ==
    /\ pc = "maybe_truncate"
    /\ pg_tables' = truncated(pg_tables, Key, load_mode)
    /\ pg_log' = IF load_mode = S_replace
                 THEN pg_log \o <<Event("truncate"), Event("commit")>>
                 ELSE pg_log
    /\ pc' = "load_data"
    /\ UNCHANGED <<env, my, pg, src_count, meta_idx, m, loc,
                   pg_schemas, pg_pending, pg_pending_cells, history>>
    /\ names_type_idle

\* line 244 or line 249 raising in replace mode: the TRUNCATE was sent and
\* failed, or it was executed and its commit failed; the rows stay
TruncateFails ==
    /\ pc = "maybe_truncate"
    /\ load_mode = S_replace
    /\ \/ pg_log' = Append(pg_log, Failed("truncate"))
       \/ pg_log' = pg_log \o <<Event("truncate"), Failed("commit")>>
    /\ pc' = "finally_raise"
    /\ UNCHANGED <<env, my, pg, src_count, meta_idx, m, loc,
                   pg_schemas, pg_tables, pg_pending, pg_pending_cells,
                   history>>
    /\ names_type_idle

\* lines 263-273: the SELECT is executed, total = 0
LoadSelect ==
    /\ pc = "load_data"
    /\ loc' = [loc EXCEPT !.select_cols = loc.mysql_cols,
                          !.insert_cols = loc.pg_cols,
                          !.fetched = 0, !.total = 0]
    /\ pc' = "fetchmany"
    /\ UNCHANGED <<env, my, pg, src_count, meta_idx, m,
                   pg_schemas, pg_tables, pg_pending, pg_pending_cells,
                   pg_log, history>>
    /\ names_type_idle

\* line 265 raising: the SELECT fails on the source, nothing is sent to the
\* target
SelectFails ==
    /\ pc = "load_data"
    /\ pc' = "finally_raise"
    /\ UNCHANGED <<env, my, pg, src_count, meta_idx, m, loc,
                   pg_schemas, pg_tables, pg_pending, pg_pending_cells,
                   pg_log, history>>
    /\ names_type_idle

\* lines 276-279: a chunk is fetched and inserted by one statement, which
\* the target may refuse
InsertChunk ==
    /\ pc = "fetchmany"
    /\ LET rows == fetchmany(SrcRows(m.SOURCE.database, m.SOURCE.table),
                             loc.fetched, batch_size)
       IN  /\ rows # <<>>
           /\ loc' = [loc EXCEPT !.fetched = @ + Len(rows)]
           /\ IF InsertAccepted(Key, loc.insert_cols, rows)
              THEN /\ pg_log' = Append(pg_log, Event("insert"))
                   /\ pg_pending' = rows
                   /\ pg_pending_cells' =
                         UNION {InsertedRow(loc.insert_cols, rows[j],
                                            SelectedRow(loc.select_cols,
                                                        rows[j])) :
                                   j \in 1..Len(rows)}
                   /\ pc' = "commit"
              ELSE /\ pg_log' = Append(pg_log, Failed("insert"))
                   /\ UNCHANGED <<pg_pending, pg_pending_cells>>
                   /\ pc' = "finally_raise"
    /\ UNCHANGED <<env, my, pg, src_count, meta_idx, m,
                   pg_schemas, pg_tables, history>>
    /\ names_type_idle

\* line 279 raising for a reason of the connection
InsertFails ==
    /\ pc = "fetchmany"
    /\ LET rows == fetchmany(SrcRows(m.SOURCE.database, m.SOURCE.table),
                             loc.fetched, batch_size)
       IN  /\ rows # <<>>
           /\ loc' = [loc EXCEPT !.fetched = @ + Len(rows)]
    /\ pg_log' = Append(pg_log, Failed("insert"))
    /\ pc' = "finally_raise"
    /\ UNCHANGED <<env, my, pg, src_count, meta_idx, m,
                   pg_schemas, pg_tables, pg_pending, pg_pending_cells,
                   history>>
    /\ names_type_idle

\* lines 280-281: the chunk is committed and counted
CommitChunk ==
    /\ pc = "commit"
    /\ pg_tables' = [pg_tables EXCEPT ![Key] =
                        [@ EXCEPT !.rows = @ \o pg_pending,
                                  !.cells = @ \cup pg_pending_cells]]
    /\ loc' = [loc EXCEPT !.total = @ + Len(pg_pending)]
    /\ pg_pending' = <<>>
    /\ pg_pending_cells' = {}
    /\ pg_log' = Append(pg_log, Event("commit"))
    /\ pc' = "fetchmany"
    /\ UNCHANGED <<env, my, pg, src_count, meta_idx, m,
                   pg_schemas, history>>
    /\ names_type_idle

\* line 280 raising after the server made the chunk durable
CommitFailsAfterWrite ==
    /\ pc = "commit"
    /\ pg_tables' = [pg_tables EXCEPT ![Key] =
                        [@ EXCEPT !.rows = @ \o pg_pending,
                                  !.cells = @ \cup pg_pending_cells]]
    /\ pg_log' = Append(pg_log, Failed("commit"))
    /\ pc' = "finally_raise"
    /\ UNCHANGED <<env, my, pg, src_count, meta_idx, m, loc,
                   pg_schemas, pg_pending, pg_pending_cells, history>>
    /\ names_type_idle

\* line 280 raising: the chunk stays uncommitted
CommitFails ==
    /\ pc = "commit"
    /\ pg_log' = Append(pg_log, Failed("commit"))
    /\ pc' = "finally_raise"
    /\ UNCHANGED <<env, my, pg, src_count, meta_idx, m, loc,
                   pg_schemas, pg_tables, pg_pending, pg_pending_cells,
                   history>>
    /\ names_type_idle

\* lines 277-278, 282-283, 342: fetchmany returns no rows, load_data returns
\* total and the loop goes to the next row
LoadReturn ==
    /\ pc = "fetchmany"
    /\ fetchmany(SrcRows(m.SOURCE.database, m.SOURCE.table),
                 loc.fetched, batch_size) = <<>>
    /\ history' = Append(history, [spec |-> meta_idx, name |-> m.INGESTION_NAME,
                                   outcome |-> "done",
                                   table |-> m.TARGET.table, key |-> Key,
                                   total |-> loc.total])
    /\ pc' = "for"
    /\ UNCHANGED <<env, my, pg, src_count, meta_idx, m, loc,
                   pg_schemas, pg_tables, pg_pending, pg_pending_cells,
                   pg_log>>
    /\ names_type_idle

\* a finally clause that commits the open transaction before closing
FinallyCommitsPending ==
    /\ pc \in {"finally_return", "finally_raise"}
    /\ pg' = "closed"
    /\ my' = "closed"
    /\ pg_pending' = <<>>
    /\ pg_pending_cells' = {}
    /\ pg_tables' = IF pg_pending # <<>>
                    THEN [pg_tables EXCEPT ![Key] =
                             [@ EXCEPT !.rows = @ \o pg_pending,
                                       !.cells = @ \cup pg_pending_cells]]
                    ELSE pg_tables
    /\ pc' = IF pc = "finally_return" THEN "returned" ELSE "raised"
    /\ UNCHANGED <<env, src_count, meta_idx, m, loc,
                   pg_schemas, pg_log, history>>
    /\ names_type_idle

\* lines 344-346: both connections are closed; closing the target discards
\* the open transaction
Finally ==
    /\ pc \in {"finally_return", "finally_raise"}
    /\ pg' = "closed"
    /\ my' = "closed"
    /\ pg_pending' = <<>>
    /\ pg_pending_cells' = {}
    /\ pc' = IF pc = "finally_return" THEN "returned" ELSE "raised"
    /\ UNCHANGED <<env, src_count, meta_idx, m, loc,
                   pg_schemas, pg_tables, pg_log, history>>
    /\ names_type_idle

MainNext ==
    \/ CheckEnv \/ MysqlConn \/ SupaPgConn \/ LoadAllMetadata
    \/ ForEnd \/ ForSkip \/ ForTake \/ Introspect
    \/ EnsureSchemaAndTable \/ EnsureFails
    \/ MaybeTruncate \/ TruncateFails
    \/ LoadSelect \/ SelectFails \/ InsertChunk \/ InsertFails
    \/ CommitChunk \/ CommitFails \/ LoadReturn \/ Finally

-----------------------------------------------------------------------------
(* Properties of the column names *)

\* the number of earlier positions of idents holding the name at position i
PriorOccurrences(idents, i) ==
    Cardinality({j \in 1..(i - 1) : idents[j] = idents[i]})

\* C1: after normalize_ident on each raw name and dedupe_idents on the list,
\* the identifiers are pairwise distinct.
C1_PairwiseDistinct ==
    names_pc = "deduped" =>
        \A i, j \in 1..Len(pg_col_names) :
            i # j => pg_col_names[i] # pg_col_names[j]

\* C2 as stated: the first occurrence of a name is kept and a later
\* occurrence becomes base_n with n the number of earlier occurrences.
C2_SuffixIsPriorCount ==
    names_pc = "deduped" =>
        \A i \in 1..Len(pg_col_names) :
            LET n == PriorOccurrences(norm_names, i)
            IN  pg_col_names[i] =
                    IF n = 0 THEN norm_names[i]
                    ELSE norm_names[i] \o <<"_">> \o IntToStr(n)

\* C2 amended: the first occurrence of a name is kept and a later occurrence
\* becomes base_n with n the number of occurrences up to and including it
\* (the second occurrence gets _2, the third _3).
C2_SuffixIsOccurrenceNumber ==
    names_pc = "deduped" =>
        /\ Len(pg_col_names) = Len(norm_names)
        /\ \A i \in 1..Len(pg_col_names) :
            LET n == PriorOccurrences(norm_names, i)
            IN  pg_col_names[i] =
                    IF n = 0 THEN norm_names[i]
                    ELSE norm_names[i] \o <<"_">> \o IntToStr(n + 1)

\* "Name", "name ", "Name" were deduplicated to name, name_2, name_3
C2_Witness ==
    /\ names_pc = "deduped"
    /\ mysql_col_names = << <<"N","a","m","e">>, <<"n","a","m","e"," ">>,
                            <<"N","a","m","e">> >>
    /\ pg_col_names = << <<"n","a","m","e">>, <<"n","a","m","e","_","2">>,
                         <<"n","a","m","e","_","3">> >>

\* an identifier of the alphabet [a-z_][a-z0-9_]*
ValidIdent(s) ==
    /\ s # <<>>
    /\ s[1] \in LowerAZ \cup {"_"}
    /\ \A i \in 1..Len(s) : s[i] \in IdentChars

\* C7: normalize_ident returns, for every input string, a non-empty lower
\* case string matching [a-z_][a-z0-9_]*.
C7_ValidIdentifier ==
    names_pc # "raw" =>
        /\ Len(norm_names) = Len(mysql_col_names)
        /\ \A i \in 1..Len(norm_names) : ValidIdent(norm_names[i])

\* a digit-leading name with punctuation, white space and a non-ASCII
\* character was normalized, and so was the empty name
C7_Witness ==
    /\ names_pc = "normalized"
    /\ \/ /\ mysql_col_names = << <<"2", "!", " ", "U+00E9">> >>
          /\ norm_names = << <<"c", "_", "2">> >>
       \/ /\ mysql_col_names = << <<>> >>
          /\ norm_names = << <<"c", "o", "l">> >>

\* C20: a PRIMARY KEY clause is emitted exactly when the source primary key
\* is not empty, and it lists, in the order of the key, for each key column
\* the target name under which that column is defined.
C20_PrimaryKeyClause ==
    names_pc = "keyed" =>
        /\ pk_sql # <<>> <=> pk_cols # <<>>
        /\ Len(pk_norm) = Len(pk_cols)
        /\ \A k \in 1..Len(pk_cols) :
              \E i \in 1..Len(mysql_col_names) :
                  /\ mysql_col_names[i] = pk_cols[k]
                  /\ pk_norm[k] = pg_col_names[i]
        /\ pk_cols # <<>> =>
              /\ StartsWith(pk_sql, S_PRIMARY_KEY \o <<"\"">> \o pk_norm[1] \o <<"\"">>)
              /\ \A k \in 1..Len(pk_norm) :
                    Contains(pk_sql, <<"\"">> \o pk_norm[k] \o <<"\"">>)

\* for the columns a, Name, "name " with the key ("name ", a) the clause
\* lists name_2, then a
C20_Witness ==
    /\ names_pc = "keyed"
    /\ mysql_col_names = << <<"a">>, <<"N","a","m","e">>, <<"n","a","m","e"," ">> >>
    /\ pk_cols = << <<"n","a","m","e"," ">>, <<"a">> >>
    /\ pk_norm = << <<"n","a","m","e","_","2">>, <<"a">> >>
    /\ pk_sql = S_PRIMARY_KEY \o <<"\"","n","a","m","e","_","2","\"",",",
                                  " ","\"","a","\"",")">>

-----------------------------------------------------------------------------
(* Column types: (DATA_TYPE, COLUMN_TYPE) pairs and their mapping *)

S_TINYINT == <<"T","I","N","Y","I","N","T">>
S_enum == <<"e","n","u","m">>
S_year == <<"y","e","a","r">>
S_unsigned == <<" ","u","n","s","i","g","n","e","d">>
S_unsigned_zerofill == <<" ","u","n","s","i","g","n","e","d"," ","z","e","r","o","f","i","l","l">>

\* the type codes drawn: every code the mapper names, two it does not, an
\* upper case one, the empty string and None
DataTypes ==
    { S_int, S_integer, S_mediumint, S_bigint, S_smallint, S_tinyint,
      S_decimal, S_numeric, S_float, S_double, S_varchar, S_char, S_text,
      S_mediumtext, S_longtext, S_datetime, S_timestamp, S_date, S_time,
      S_json, S_blob, S_mediumblob, S_longblob, S_binary, S_varbinary,
      S_TINYINT, S_enum, S_year, <<>>, None }

\* a column declaration: a base name, the numbers in parentheses after it
\* (none, a width/length, or precision and scale) and an attribute suffix;
\* missing is TRUE for a COLUMN_TYPE that is None
ColumnDecls ==
    [ base : {S_tinyint, S_TINYINT, S_decimal, S_varchar, <<>>},
      params : {<<>>} \cup {<<w>> : w \in 0..MaxWidth}
                      \cup {<<p, sc>> : p \in 1..MaxWidth, sc \in 0..MaxScale},
      suffix : {<<>>, S_unsigned, S_unsigned_zerofill},
      missing : {FALSE} ]
    \cup { [base |-> <<>>, params |-> <<>>, suffix |-> <<>>, missing |-> TRUE] }

\* the COLUMN_TYPE string MySQL shows for a declaration
RenderDecl(d) ==
    IF d.missing THEN None
    ELSE d.base
         \o (CASE Len(d.params) = 0 -> <<>>
               [] Len(d.params) = 1 -> <<"(">> \o IntToStr(d.params[1]) \o <<")">>
               [] Len(d.params) = 2 -> <<"(">> \o IntToStr(d.params[1]) \o <<",">>
                                       \o IntToStr(d.params[2]) \o <<")">>)
         \o d.suffix

TypeIdle ==
    /\ DATA_TYPE = None
    /\ col_decl = [base |-> <<>>, params |-> <<>>, suffix |-> <<>>, missing |-> TRUE]
    /\ COLUMN_TYPE = None
    /\ pg_type = <<>>
    /\ COLUMN_DEFAULT = None
    /\ default_sql = <<>>
    /\ type_pc = "idle"

S_CURRENT_TIMESTAMP == <<"C","U","R","R","E","N","T","_","T","I","M","E","S","T","A","M","P">>

\* the column defaults drawn: none, the boolean spellings, whole and
\* fractional numbers with and without sign, a number above the smallint
\* range, strings that are no number, the empty string, a string with a
\* quote and an expression
Defaults ==
    { None, S_0, S_1, S_true, S_TRUE, S_false, S_FALSE, <<"2">>,
      <<"-","3">>, <<"1",".","5">>, <<"+","1",".","5","0">>,
      <<"4","0","0","0","0">>, <<"+">>, <<"1",".">>, <<"a","b","c">>,
      <<"i","t","'","s">>, <<>>, S_CURRENT_TIMESTAMP }

\* the declarations drawn together with every default
DefaultDecls ==
    { d \in ColumnDecls :
        /\ ~d.missing
        /\ d.suffix = <<>>
        /\ d.params \in {<<>>, <<1>>, <<5>>, <<5, 2>>} }

TypeInit ==
    /\ DATA_TYPE \in DataTypes
    /\ col_decl \in ColumnDecls
    /\ COLUMN_TYPE = RenderDecl(col_decl)
    /\ pg_type = <<>>
    /\ COLUMN_DEFAULT \in IF col_decl \in DefaultDecls THEN Defaults ELSE {None}
    /\ default_sql = <<>>
    /\ type_pc = "unmapped"

\* line 190: pg_type = map_mysql_to_pg(c["DATA_TYPE"], c["COLUMN_TYPE"])
MapType ==
    /\ type_pc = "unmapped"
    /\ pg_type' = map_mysql_to_pg(DATA_TYPE, COLUMN_TYPE)
    /\ type_pc' = "mapped"
    /\ UNCHANGED <<DATA_TYPE, col_decl, COLUMN_TYPE, COLUMN_DEFAULT, default_sql,
                   names_vars, main_vars>>

\* lines 193-205: the DEFAULT clause for the mapped type
BuildDefault ==
    /\ type_pc = "mapped"
    /\ default_sql' = default_sql_of(pg_type, COLUMN_DEFAULT)
    /\ type_pc' = "built"
    /\ UNCHANGED <<DATA_TYPE, col_decl, COLUMN_TYPE, pg_type, COLUMN_DEFAULT,
                   names_vars, main_vars>>

TypeNext == MapType \/ BuildDefault


-----------------------------------------------------------------------------
(* Properties of the type mapper *)

\* the declaration is one of a tinyint column (any width, attribute and
\* letter case), or the type string is empty or missing
IsTinyintDecl(d) ==
    \/ d.missing
    \/ d.base = <<>> /\ d.params = <<>> /\ d.suffix = <<>>
    \/ d.base \in {S_tinyint, S_TINYINT} /\ Len(d.params) <= 1

\* C10: type code tinyint maps to boolean when the display width declared in
\* the type string is exactly 1, and to smallint for every other type string.
C10_TinyintWidthOne ==
    (type_pc = "mapped" /\ DATA_TYPE \in {S_tinyint, S_TINYINT}
        /\ IsTinyintDecl(col_decl)) =>
        pg_type = IF col_decl.base # <<>> /\ col_decl.params = <<1>>
                  THEN S_boolean ELSE S_smallint

\* tinyint(10) was mapped to smallint and tinyint(1) unsigned to boolean
C10_Witness ==
    /\ type_pc = "mapped"
    /\ DATA_TYPE = S_tinyint
    /\ \/ COLUMN_TYPE = <<"t","i","n","y","i","n","t","(","1","0",")">> /\ pg_type = S_smallint
       \/ COLUMN_TYPE = <<"t","i","n","y","i","n","t","(","1",")"," ","u","n","s","i","g","n","e","d">> /\ pg_type = S_boolean

\* C11: decimal and numeric columns map to numeric(p,s) with the p and s of
\* the type string and to numeric when it holds no pair; varchar and char
\* columns map to varchar(n) with the n of the type string and to text when
\* it holds no length.
C11_PrecisionAndLengthKept ==
    (type_pc = "mapped" /\ ~col_decl.missing) =>
        /\ DATA_TYPE \in {S_decimal, S_numeric} =>
              pg_type = IF Len(col_decl.params) = 2
                        THEN S_numeric \o <<"(">> \o IntToStr(col_decl.params[1])
                             \o <<",">> \o IntToStr(col_decl.params[2]) \o <<")">>
                        ELSE S_numeric
        /\ DATA_TYPE \in {S_varchar, S_char} =>
              pg_type = IF Len(col_decl.params) = 1
                        THEN S_varchar \o <<"(">> \o IntToStr(col_decl.params[1])
                             \o <<")">>
                        ELSE S_text

\* decimal(10,2) unsigned was mapped to numeric(10,2)
C11_Witness ==
    /\ type_pc = "mapped"
    /\ DATA_TYPE = S_decimal
    /\ COLUMN_TYPE = S_decimal \o <<"(","1","0",",","2",")">> \o S_unsigned
    /\ pg_type = S_numeric \o <<"(","1","0",",","2",")">>

\* the type codes map_mysql_to_pg names, as it compares them: in lower case
RecognizedCodes ==
    { S_int, S_integer, S_mediumint, S_bigint, S_smallint, S_tinyint,
      S_decimal, S_numeric, S_float, S_double, S_varchar, S_char, S_text,
      S_mediumtext, S_longtext, S_datetime, S_timestamp, S_date, S_time,
      S_json, S_blob, S_mediumblob, S_longblob, S_binary, S_varbinary }

\* a string of one or more digits
IsDigits(s) == s # <<>> /\ \A i \in 1..Len(s) : s[i] \in Digits

\* a target type descriptor: one of the fixed type names, numeric(p,s) or
\* varchar(n)
IsDescriptor(t) ==
    \/ t \in { S_integer, S_bigint, S_smallint, S_boolean, S_numeric, S_real,
               S_double_precision, S_text, S_timestamp, S_timestamptz, S_date,
               S_time, S_jsonb, S_bytea }
    \/ \E i \in 1..Len(t) :
          /\ t[i] = ","
          /\ SubSeq(t, 1, Len(S_numeric) + 1) = S_numeric \o <<"(">>
          /\ IsDigits(SubSeq(t, Len(S_numeric) + 2, i - 1))
          /\ IsDigits(SubSeq(t, i + 1, Len(t) - 1))
          /\ t[Len(t)] = ")"
    \/ /\ Len(t) > Len(S_varchar) + 2
       /\ SubSeq(t, 1, Len(S_varchar) + 1) = S_varchar \o <<"(">>
       /\ IsDigits(SubSeq(t, Len(S_varchar) + 2, Len(t) - 1))
       /\ t[Len(t)] = ")"

\* C12: map_mysql_to_pg returns a target type descriptor for every pair of
\* type code and type string, empty and missing ones included, and text for
\* every type code it does not name.
C12_TotalAndFailOpen ==
    type_pc = "mapped" =>
        /\ IsDescriptor(pg_type)
        /\ Lower(OrEmpty(DATA_TYPE)) \notin RecognizedCodes => pg_type = S_text

\* the type code enum, with a type string that holds a length, and a missing
\* type code were mapped to text
C12_Witness ==
    /\ type_pc = "mapped"
    /\ pg_type = S_text
    /\ \/ DATA_TYPE = S_enum /\ COLUMN_TYPE = S_varchar \o <<"(","5",")">>
       \/ DATA_TYPE = None /\ COLUMN_TYPE = None

\* a whole number with an optional sign
IsIntegerLiteral(s) ==
    IsDigits(IF s # <<>> /\ s[1] \in {"-", "+"} THEN Tail(s) ELSE s)

\* a whole number, or one with a fraction, with an optional sign
IsDecimalLiteral(s) ==
    \/ IsIntegerLiteral(s)
    \/ \E i \in 2..(Len(s) - 1) :
          /\ s[i] = "."
          /\ IsIntegerLiteral(SubSeq(s, 1, i - 1))
          /\ IsDigits(SubSeq(s, i + 1, Len(s)))

\* a whole number between -32768 and 32767
InSmallintRange(s) ==
    /\ IsIntegerLiteral(s)
    /\ LET digits == IF s[1] \in {"-", "+"} THEN Tail(s) ELSE s
       IN  /\ Len(digits) <= 5
           /\ StrToInt(digits) <= (IF s[1] = "-" THEN 32768 ELSE 32767)

\* C19: a column definition has a DEFAULT clause only when the source default
\* converts to a literal of the derived type: true or false for boolean, a
\* number valid for the numeric type (no fraction for integer, bigint and
\* smallint), a quoted string for text and varchar; for every other type or
\* default there is no clause.
C19_DefaultCompatible ==
    (type_pc = "built" /\ default_sql # <<>>) =>
        /\ COLUMN_DEFAULT # None
        /\ \/ /\ pg_type = S_boolean
              /\ \/ /\ COLUMN_DEFAULT \in {S_0, S_false, S_FALSE}
                    /\ default_sql = S_DEFAULT \o S_false
                 \/ /\ COLUMN_DEFAULT \in {S_1, S_true, S_TRUE}
                    /\ default_sql = S_DEFAULT \o S_true
           \/ /\ pg_type \in {S_integer, S_bigint}
              /\ IsIntegerLiteral(COLUMN_DEFAULT)
              /\ default_sql = S_DEFAULT \o COLUMN_DEFAULT
           \/ /\ pg_type = S_smallint
              /\ InSmallintRange(COLUMN_DEFAULT)
              /\ default_sql = S_DEFAULT \o COLUMN_DEFAULT
           \/ /\ \/ pg_type \in {S_numeric, S_real, S_double_precision}
                 \/ StartsWith(pg_type, S_numeric \o <<"(">>)
              /\ IsDecimalLiteral(COLUMN_DEFAULT)
              /\ default_sql = S_DEFAULT \o COLUMN_DEFAULT
           \/ /\ pg_type = S_text \/ StartsWith(pg_type, S_varchar \o <<"(">>)
              /\ default_sql = S_DEFAULT \o SqlLiteral(COLUMN_DEFAULT)

-----------------------------------------------------------------------------
(* Properties of main() *)

\* the positions of pg_log holding statement op of spec number n
LogPositions(op, n) ==
    {i \in 1..Len(pg_log) : pg_log[i].op = op /\ pg_log[i].spec = n}

\* the loop has just finished loading a spec: load_data returned and nothing
\* of a later spec has started
JustLoaded ==
    /\ pc \in {"for", "finally_return", "returned"}
    /\ history # <<>>
    /\ history[Len(history)].outcome = "done"

LastDone == history[Len(history)]

\* the body of the loop holds the names ensure_schema_and_table returned for
\* the row m
Processing == pc \in {"maybe_truncate", "load_data", "fetchmany", "commit"}

\* main() stands in, or has left through, the finally clause with an
\* exception after load_data fetched a chunk that was never committed
LoadFailed ==
    /\ pc \in {"finally_raise", "raised"}
    /\ loc.fetched > loc.total

\* C3: in replace mode, when a spec has been loaded without error, its target
\* table holds exactly the source rows and none of the earlier rows, and the
\* TRUNCATE was committed before the first INSERT.
C3_ReplaceIsFullRefresh ==
    (JustLoaded /\ load_mode = S_replace) =>
        /\ pg_tables[LastDone.key].rows =
              SrcRows(m.SOURCE.database, m.SOURCE.table)
        /\ \E t \in LogPositions("truncate", LastDone.spec) :
              /\ pg_log[t].ok
              /\ t + 1 <= Len(pg_log)
              /\ pg_log[t + 1].op = "commit"
              /\ pg_log[t + 1].ok
              /\ \A i \in LogPositions("insert", LastDone.spec) : t + 1 < i

\* a replace run over a table that held two rows loaded the three source rows
C3_Witness ==
    /\ pc = "returned"
    /\ load_mode = S_replace
    /\ src_count = 3
    /\ <<S_prd_ahp, S_u>> \in DOMAIN pg_tables
    /\ pg_tables[<<S_prd_ahp, S_u>>].rows = <<-3, -4>>
    /\ Len(history) = 1
    /\ LastDone.key = <<S_prd_ahp, S_t>>
    /\ pg_tables[<<S_prd_ahp, S_t>>].rows = <<1, 2, 3>>

\* C4: for R source rows and batch size B > 0, load_data issues ceil(R/B)
\* INSERT statements, each followed by one commit, and returns R.
C4_BatchAccounting ==
    JustLoaded =>
        LET inserts == LogPositions("insert", LastDone.spec)
        IN  /\ Cardinality(inserts) =
                  (src_count + batch_size - 1) \div batch_size
            /\ \A i \in inserts :
                  /\ pg_log[i].ok
                  /\ i + 1 <= Len(pg_log)
                  /\ pg_log[i + 1].op = "commit"
                  /\ pg_log[i + 1].ok
                  /\ pg_log[i + 1].spec = LastDone.spec
            /\ LastDone.total = src_count

\* three rows were loaded in batches of two by two INSERT statements
C4_Witness ==
    /\ JustLoaded
    /\ src_count = 3
    /\ batch_size = 2
    /\ Cardinality(LogPositions("insert", LastDone.spec)) = 2
    /\ LastDone.total = 3

\* C5, in every state: when chunk k failed, chunks 1..k-1 are the committed
\* rows of the load, chunk k was sent once and at most one chunk is lost.
C5_PartialLoad ==
    LoadFailed =>
        LET rows == pg_tables[Key].rows
            src == SrcRows(m.SOURCE.database, m.SOURCE.table)
            k == Cardinality(LogPositions("insert", meta_idx))
        IN  /\ loc.total = batch_size * (k - 1)
            /\ loc.fetched - loc.total <= batch_size
            /\ Len(rows) >= loc.total
            /\ SubSeq(rows, Len(rows) - loc.total + 1, Len(rows)) =
                  SubSeq(src, 1, loc.total)
            /\ load_mode = S_replace => Len(rows) = loc.total
            /\ pc = "raised" => pg_pending = <<>>

\* C5, in every step: once an exception is on its way out of main(), nothing
\* more is sent to the target and its committed rows stay as they are.
C5_AbortStep ==
    pc \in {"finally_raise", "raised"} =>
        /\ pc' \in {"finally_raise", "raised"}
        /\ pg_tables' = pg_tables
        /\ pg_log' = pg_log
        /\ history' = history

\* C5: if inserting or committing chunk k fails, the chunk is not retried, no
\* later chunk is inserted, the run aborts and the target keeps exactly the
\* committed chunks 1..k-1.
C5_FailedChunkAborts == [](C5_PartialLoad) /\ [][C5_AbortStep]_vars

\* the second of three one-row chunks failed in replace mode: one row is
\* committed, the run has ended with the exception
C5_Witness ==
    /\ pc = "raised"
    /\ load_mode = S_replace
    /\ src_count = 3
    /\ batch_size = 1
    /\ loc.fetched = 2
    /\ loc.total = 1
    /\ pg_tables[Key].rows = <<1>>

\* a step of ensure_schema_and_table that raises nothing leaves every
\* existing table as it is, definition and rows, and adds a table only for
\* a <<schema, table>> that had none
C6_EnsureStep ==
    (pc = "ensure_schema_and_table" /\ pc' = "maybe_truncate") =>
        /\ \A key \in DOMAIN pg_tables :
              key \in DOMAIN pg_tables' /\ pg_tables'[key] = pg_tables[key]
        /\ DOMAIN pg_tables' = DOMAIN pg_tables \cup {Key'}
        /\ Key' \notin DOMAIN pg_tables =>
              pg_tables'[Key'].cols =
                  col_defs_of(SrcColumns(m.SOURCE.database, m.SOURCE.table))

\* C6: ensure_schema_and_table creates the target table only when it is
\* absent; a table that exists keeps its definition and its rows.
C6_CreateOnlyIfAbsent == [][C6_EnsureStep]_vars

\* the DDL ran twice for the same table against a target that was empty, and
\* the target holds exactly one table
C6_Witness ==
    /\ Cardinality(DOMAIN pg_tables) = 1
    /\ \E i, j \in 1..Len(pg_log) :
          /\ i < j
          /\ pg_log[i].op = "ddl" /\ pg_log[j].op = "ddl"
          /\ pg_log[i].key = pg_log[j].key
          /\ pg_log[i].key \in DOMAIN pg_tables

\* C8: two specs loaded in one run whose raw target table names differ and
\* whose target schema is the same load into different <<schema, table>>.
C8_TableNamesUnique ==
    \A i, j \in 1..Len(history) :
        (/\ history[i].outcome = "done" /\ history[j].outcome = "done"
         /\ history[i].table # history[j].table
         /\ history[i].key[1] = history[j].key[1])
        => history[i].key # history[j].key

\* C9 as stated: with USE_TARGET_SCHEMA=1 the schema comes from the source
\* database name of the spec, otherwise it is the fixed schema name.
C9_SchemaFromSourceDatabase ==
    Processing =>
        loc.schema_norm =
            normalize_ident(IF use_target_schema THEN m.SOURCE.database
                            ELSE fixed_schema)

\* C9 amended: with USE_TARGET_SCHEMA=1 the schema is the normalized
\* "database" of the spec's TARGET (the fixed schema name when TARGET has no
\* such key), otherwise it is the normalized fixed schema name.
C9_SchemaFromTargetDatabase ==
    Processing =>
        loc.schema_norm =
            normalize_ident(
                IF use_target_schema /\ m.TARGET.database # None
                THEN m.TARGET.database
                ELSE fixed_schema)

\* with the toggle on, a spec read from database shop with target database
\* Wh is loaded into schema wh
C9_Witness ==
    /\ Processing
    /\ use_target_schema
    /\ m.SOURCE.database = S_shop
    /\ m.TARGET.database = S_Wh
    /\ loc.schema_norm = <<"w", "h">>

\* C13, in every state: with a required value missing or empty no connection
\* is open and nothing was sent to the target.
C13_NoConnection ==
    (env.set # RequiredKeys \/ env.SUPABASE_PG_DSN = <<>>) =>
        /\ pc \in {"idle", "start", "exit"}
        /\ my = "none"
        /\ pg = "none"
        /\ pg_log = <<>>

\* C13, in every step: with a required value missing or empty the target
\* stays as it is.
C13_NoTargetChange ==
    (env.set # RequiredKeys \/ env.SUPABASE_PG_DSN = <<>>) =>
        /\ pg_schemas' = pg_schemas
        /\ pg_tables' = pg_tables
        /\ pg_pending' = pg_pending

\* C13: if MYSQL_USER, MYSQL_PASSWORD, MYSQL_DATABASE or SUPABASE_PG_DSN is
\* missing or empty, main aborts before a connection is opened and performs
\* no DDL, truncate or insert.
C13_AbortBeforeConnecting == [](C13_NoConnection) /\ [][C13_NoTargetChange]_vars

\* main() has ended with SystemExit for an empty SUPABASE_PG_DSN, the three
\* MySQL values being set, without a connection
C13_Witness ==
    /\ pc = "exit"
    /\ env.set = RequiredKeys
    /\ env.SUPABASE_PG_DSN = <<>>
    /\ my = "none"
    /\ pg = "none"

\* C14, in every state: introspection, DDL and load run only for a row that is
\* table -> table, and nothing was sent to the target for a skipped spec.
C14_SkippedUntouched ==
    /\ pc \in {"mysql_columns", "ensure_schema_and_table", "maybe_truncate",
               "load_data", "fetchmany", "commit"} =>
          m.SOURCE_TYPE = "table" /\ m.TARGET_TYPE = "table"
    /\ \A i \in 1..Len(history) :
          history[i].outcome = "skipped" =>
              \A j \in 1..Len(pg_log) : pg_log[j].spec # history[i].spec

\* C14, in every step: taking a row that is not table -> table changes
\* nothing in the target, keeps both connections open and leaves main() at
\* the head of the loop, where the next row is taken.
C14_SkipStep ==
    (/\ meta_idx' = meta_idx + 1
     /\ m'.SOURCE_TYPE # "table" \/ m'.TARGET_TYPE # "table") =>
        /\ pc' = "for"
        /\ my' = "open" /\ pg' = "open"
        /\ pg_schemas' = pg_schemas
        /\ pg_tables' = pg_tables
        /\ pg_pending' = pg_pending
        /\ pg_log' = pg_log
        /\ history'[Len(history')].outcome = "skipped"

\* C14: an active spec whose SOURCE_TYPE or TARGET_TYPE is not "table" is
\* skipped without introspection, DDL, truncate or insert; the run does not
\* abort and the later specs are processed.
C14_UnsupportedSkipped == [](C14_SkippedUntouched) /\ [][C14_SkipStep]_vars

\* the view -> table spec was skipped and the spec after it loaded its rows
C14_Witness ==
    /\ Len(history) = 2
    /\ history[1].outcome = "skipped"
    /\ history[2].outcome = "done"
    /\ src_count = 2
    /\ history[2].total = 2
    /\ pg_tables[history[2].key].rows = <<1, 2>>

\* the row m is table -> table and the catalog has no columns for its source
NoColumns ==
    /\ meta_idx >= 1
    /\ m.SOURCE_TYPE = "table" /\ m.TARGET_TYPE = "table"
    /\ SrcColumns(m.SOURCE.database, m.SOURCE.table) = <<>>

\* C15, in every state: once mysql_columns ran for a source without columns
\* an exception is on its way out of main() and nothing was sent to the
\* target for that spec.
C15_Raised ==
    (NoColumns /\ pc # "mysql_columns") =>
        /\ pc \in {"finally_raise", "raised"}
        /\ \A j \in 1..Len(pg_log) : pg_log[j].spec # meta_idx

\* C15, in every step: for a source without columns the target stays as it is.
C15_NoTargetChange ==
    NoColumns =>
        /\ pg_schemas' = pg_schemas
        /\ pg_tables' = pg_tables
        /\ pg_pending' = pg_pending
        /\ pg_log' = pg_log

\* C15: when the catalog returns no columns for a spec's source table an
\* error is raised and no schema or table is created, truncated or loaded
\* for that spec.
C15_NoColumnsIsAnError == [](C15_Raised) /\ [][C15_NoTargetChange]_vars

\* one spec was loaded, then main() ended with the exception raised for the
\* source table without columns
C15_Witness ==
    /\ pc = "raised"
    /\ m.SOURCE.table = S_ghost
    /\ meta_idx = 2
    /\ Len(history) = 1
    /\ history[1].outcome = "done"
    /\ Cardinality(DOMAIN pg_tables) = 1

\* C16, in every step: in a mode other than replace maybe_truncate sends
\* nothing and changes nothing, and the rows of a table change only by a
\* committed chunk being added after them.
C16_NoPreloadStep ==
    load_mode # S_replace =>
        /\ pc = "maybe_truncate" =>
              /\ pc' = "load_data"
              /\ pg_tables' = pg_tables
              /\ pg_pending' = pg_pending
              /\ pg_log' = pg_log
        /\ \A key \in DOMAIN pg_tables :
              /\ key \in DOMAIN pg_tables'
              /\ \/ pg_tables'[key].rows = pg_tables[key].rows
                 \/ /\ pc = "commit"
                    /\ key = Key
                    /\ pg_tables'[key].rows = pg_tables[key].rows \o pg_pending
                    /\ loc'.total = loc.total + Len(pg_pending)

\* C16, in every state: in a mode other than replace no TRUNCATE was sent,
\* and a loaded table ends with the source rows.
C16_AppendResult ==
    load_mode # S_replace =>
        /\ \A j \in 1..Len(pg_log) : pg_log[j].op # "truncate"
        /\ JustLoaded =>
              LET rows == pg_tables[LastDone.key].rows
              IN  /\ LastDone.total = src_count
                  /\ Len(rows) >= src_count
                  /\ SubSeq(rows, Len(rows) - src_count + 1, Len(rows)) =
                        SrcRows(m.SOURCE.database, m.SOURCE.table)

\* C16: with mode append, or any mode other than replace, maybe_truncate
\* issues no statement and no commit and leaves the rows unchanged, so a
\* completed run leaves the target with its previous rows plus the source
\* rows.
C16_AppendKeepsRows == [](C16_AppendResult) /\ [][C16_NoPreloadStep]_vars

\* a run in mode "merge" over a table that held two rows added the three
\* source rows after them
C16_Witness ==
    /\ pc = "returned"
    /\ load_mode = S_merge
    /\ src_count = 3
    /\ Len(history) = 1
    /\ LastDone.key = <<S_prd_ahp, S_t>>
    /\ pg_tables[<<S_prd_ahp, S_t>>].rows = <<-1, -2, 1, 2, 3>>

\* C17, in every state of the loop body after ensure_schema_and_table: the
\* two lists have the length of the column list, position i of mysql_cols is
\* the i-th source column, position i of pg_cols is its normalized name (or
\* that name with a suffix) and is the name of the i-th column definition,
\* whose type is derived from the same source column.
C17_SamePositions ==
    Processing =>
        LET cols == SrcColumns(m.SOURCE.database, m.SOURCE.table)
            col_defs == col_defs_of(cols)
        IN  /\ Len(loc.pg_cols) = Len(cols)
            /\ Len(loc.mysql_cols) = Len(cols)
            /\ Len(col_defs) = Len(cols)
            /\ \A i \in 1..Len(cols) :
                  LET base == normalize_ident(cols[i].COLUMN_NAME)
                  IN  /\ loc.mysql_cols[i] = cols[i].COLUMN_NAME
                      /\ \/ loc.pg_cols[i] = base
                         \/ StartsWith(loc.pg_cols[i], base \o <<"_">>)
                      /\ col_defs[i].name = loc.pg_cols[i]
                      /\ col_defs[i].type =
                            map_mysql_to_pg(cols[i].DATA_TYPE, cols[i].COLUMN_TYPE)

\* C17, in every step of the loop body: the two lists stay as
\* ensure_schema_and_table returned them, and the statements load_data
\* builds name the columns of the two lists, in their order.
C17_ListsKept ==
    /\ (Processing /\ Processing') =>
          /\ loc'.pg_cols = loc.pg_cols
          /\ loc'.mysql_cols = loc.mysql_cols
    /\ (pc = "load_data" /\ pc' = "fetchmany") =>
          /\ loc'.select_cols = loc.mysql_cols
          /\ loc'.insert_cols = loc.pg_cols

\* C17, for the row of key k among the cells of a table, and the column
\* definitions of that table: the row holds, under the name of the i-th
\* column definition, what the source row holds in the i-th source column,
\* and nothing else; the type of that definition is the one mapped from that
\* source column.
RowHolds(cols, col_defs, k, cells) ==
    /\ Len(col_defs) = Len(cols)
    /\ \A i \in 1..Len(cols) :
          col_defs[i].type =
              map_mysql_to_pg(cols[i].DATA_TYPE, cols[i].COLUMN_TYPE)
    /\ {t \in cells : t[1] = k} =
          {<<k, col_defs[i].name, [row |-> k, column |-> cols[i].COLUMN_NAME]>> :
              i \in 1..Len(cols)}

\* the positions of the rows of a table that were read from the source: the
\* rows the target held before the run have negative keys
LoadedAt(key) ==
    {j \in 1..Len(pg_tables[key].rows) : pg_tables[key].rows[j] >= 1}

\* C17, for what the target holds: every row inserted in the open
\* transaction and every committed row read from the source (all are read
\* from shop.orders, the one source table with columns) holds the i-th source
\* column under the name of the i-th column definition of its table.
C17_LoadedCells ==
    /\ {t[1] : t \in pg_pending_cells} =
          {pg_pending[j] : j \in 1..Len(pg_pending)}
    /\ pc = "commit" =>
          /\ pg_pending # <<>>
          /\ \A j \in 1..Len(pg_pending) :
                RowHolds(SrcColumns(m.SOURCE.database, m.SOURCE.table),
                         pg_tables[Key].cols, pg_pending[j], pg_pending_cells)
    /\ \A key \in DOMAIN pg_tables :
          /\ {t[1] : t \in pg_tables[key].cells} =
                {pg_tables[key].rows[j] : j \in 1..Len(pg_tables[key].rows)}
          /\ \A j \in LoadedAt(key) :
                RowHolds(SrcColumns(S_shop, S_orders), pg_tables[key].cols,
                         pg_tables[key].rows[j], pg_tables[key].cells)

\* C17: the i-th source column read by load_data is inserted into the i-th
\* target column name, the one whose column definition was derived from the
\* same source column; the two lists have equal length and reach load_data
\* unchanged.
C17_PositionalCorrespondence ==
    [](C17_SamePositions /\ C17_LoadedCells) /\ [][C17_ListsKept]_vars

\* a run over three source columns (Id, Name, name!) created prd_ahp.t in an
\* empty target and loaded the row of key 1 into it: the row holds Id under
\* id, Name under name and name! under name_2
C17_Witness ==
    /\ pc = "returned"
    /\ loc.mysql_cols = <<S_Id, S_Name, <<"n","a","m","e","!">> >>
    /\ loc.pg_cols = << <<"i","d">>, <<"n","a","m","e">>,
                        <<"n","a","m","e","_","2">> >>
    /\ DOMAIN pg_tables = {<<S_prd_ahp, S_t>>}
    /\ pg_tables[<<S_prd_ahp, S_t>>].rows = <<1>>
    /\ pg_tables[<<S_prd_ahp, S_t>>].cells =
          { <<1, <<"i","d">>, [row |-> 1, column |-> S_Id]>>,
            <<1, <<"n","a","m","e">>, [row |-> 1, column |-> S_Name]>>,
            <<1, <<"n","a","m","e","_","2">>,
              [row |-> 1, column |-> <<"n","a","m","e","!">>]>> }

\* the INGESTION_NAMEs of M_METADATA in ascending order
SortedNames ==
    << <<"a">>, <<"b">>, <<"c">>, <<"d">>, <<"e">>, <<"f">>,
       <<"s","1","0">>, <<"s","9">>, <<"z">> >>

NamePos(name) == CHOOSE i \in 1..Len(SortedNames) : SortedNames[i] = name

\* the statements of spec number n in pg_log: one DDL first; whatever follows
\* it follows its completed commit; then at most one TRUNCATE, and every
\* INSERT follows the completed commit of the TRUNCATE
SpecOrdered(n) ==
    LET all == {i \in 1..Len(pg_log) : pg_log[i].spec = n}
        ddls == LogPositions("ddl", n)
        truncates == LogPositions("truncate", n)
        inserts == LogPositions("insert", n)
    IN  all # {} =>
          /\ Cardinality(ddls) = 1
          /\ Cardinality(truncates) <= 1
          /\ \A d \in ddls :
                /\ \A i \in all : d <= i
                /\ d + 1 <= Len(pg_log) =>
                      /\ pg_log[d].ok
                      /\ pg_log[d + 1].op = "commit" /\ pg_log[d + 1].spec = n
                /\ \A t \in truncates :
                      /\ t = d + 2
                      /\ pg_log[d + 1].ok
                      /\ t + 1 <= Len(pg_log) =>
                            /\ pg_log[t].ok
                            /\ pg_log[t + 1].op = "commit"
                            /\ pg_log[t + 1].spec = n
                /\ \A i \in inserts :
                      /\ d + 1 < i
                      /\ pg_log[d + 1].ok
                      /\ \A t \in truncates : t + 1 < i /\ pg_log[t + 1].ok
          /\ (load_mode = S_replace /\ inserts # {}) => truncates # {}

\* C18: specs are taken in the order of their INGESTION_NAME; for each spec
\* the DDL commit precedes the TRUNCATE commit, which precedes the first
\* INSERT; nothing of the next spec is sent before the last commit of the
\* current one, and nothing at all after a statement or commit that raised.
C18_StrictOrder ==
    /\ \A i, j \in 1..Len(history) :
          i < j => NamePos(history[i].name) < NamePos(history[j].name)
    /\ \A i \in 1..Len(history) :
          meta_idx > history[i].spec =>
              NamePos(history[i].name) < NamePos(m.INGESTION_NAME)
    /\ \A i \in 1..Len(history) : history[i].spec = i
    /\ Processing => Len(history) = meta_idx - 1
    /\ \A n \in 1..meta_idx : SpecOrdered(n)
    /\ \A i \in 2..Len(pg_log) :
          /\ pg_log[i - 1].spec <= pg_log[i].spec
          /\ pg_log[i - 1].ok
          /\ pg_log[i - 1].spec < pg_log[i].spec =>
                pg_log[i - 1].op = "commit" /\ pg_log[i].op = "ddl"

\* in replace mode the specs named s10 and s9 were loaded in that order, two
\* one-row chunks each
C18_Witness ==
    /\ pc = "returned"
    /\ load_mode = S_replace
    /\ src_count = 2
    /\ batch_size = 1
    /\ Len(history) = 2
    /\ history[1].name = <<"s","1","0">> /\ history[1].outcome = "done"
    /\ history[2].name = <<"s","9">> /\ history[2].outcome = "done"
    /\ Len(pg_log) = 16

\* C21: when main() has terminated, by return, by an exception or by
\* SystemExit, no connection it opened is still open.
C21_ConnectionsClosed ==
    pc \in {"returned", "raised", "exit"} => my # "open" /\ pg # "open"

\* an exception is on its way out of main(), or has left it, in replace mode
\* after the TRUNCATE of the spec being processed was committed
FailedAfterTruncate ==
    /\ pc \in {"finally_raise", "raised"}
    /\ load_mode = S_replace
    /\ \E t \in LogPositions("truncate", meta_idx) :
          /\ pg_log[t].ok
          /\ t + 1 <= Len(pg_log)
          /\ pg_log[t + 1].op = "commit"
          /\ pg_log[t + 1].ok

\* C22, in every state: after such a failure the table holds exactly the
\* rows of the chunks committed so far, none of them a row it held before
\* the run.
C22_OnlyCommittedChunks ==
    FailedAfterTruncate =>
        LET rows == pg_tables[Key].rows
            src == SrcRows(m.SOURCE.database, m.SOURCE.table)
        IN  /\ rows = SubSeq(src, 1, loc.total)
            /\ \A i \in 1..Len(rows) : rows[i] \notin {-1, -2, -3, -4}

\* C22, in every step: after such a failure the rows of the table stay as
\* they are.
C22_NeverRestored ==
    FailedAfterTruncate => pg_tables'[Key].rows = pg_tables[Key].rows

\* C22: in replace mode, when the run fails after maybe_truncate committed,
\* the target table holds none of its rows from before the run and exactly
\* the rows of the committed chunks; the earlier rows are not restored.
C22_ReplaceFailureLosesOldRows ==
    [](C22_OnlyCommittedChunks) /\ [][C22_NeverRestored]_vars

\* over a table that held the rows -1 and -2 the commit of the second of
\* three one-row chunks failed: the table holds the first source row only
C22_Witness ==
    /\ pc = "raised"
    /\ load_mode = S_replace
    /\ src_count = 3
    /\ batch_size = 1
    /\ loc.fetched = 2
    /\ loc.total = 1
    /\ Key = <<S_prd_ahp, S_t>>
    /\ {<<S_prd_ahp, S_t>>, <<S_prd_ahp, S_u>>} \subseteq DOMAIN pg_tables
    /\ pg_tables[<<S_prd_ahp, S_u>>].rows = <<-3, -4>>
    /\ pg_tables[Key].rows = <<1>>
    /\ pg_log # <<>>
    /\ pg_log[Len(pg_log)].op = "commit"
    /\ ~pg_log[Len(pg_log)].ok

-----------------------------------------------------------------------------
(* Specifications *)

\* lines 179-180 on lists of raw column names
InitNames == NamesInit /\ TypeIdle /\ MainIdle

SpecNames == InitNames /\ [][NamesNext]_vars

\* map_mysql_to_pg on (DATA_TYPE, COLUMN_TYPE) pairs
InitTypes == TypeInit /\ NamesIdle /\ MainIdle

SpecTypes == InitTypes /\ [][TypeNext]_vars

Init == MainInit /\ NamesIdle /\ TypeIdle

Next == MainNext

\* main() from start to exit
Spec == Init /\ [][Next]_vars

=============================================================================
